---- MODULE Spec2Model ----
(***************************************************************************)
(* Motion-triggered event capture of the transformer monitor:              *)
(* SmartCamera (src/src/smart_camera.py) and the motion-tracking state of  *)
(* EventClassifier (src/src/event_classifier.py).                          *)
(*                                                                         *)
(* Time is counted in whole seconds (time.time() truncated).  Python None  *)
(* is the integer None; a recording's path is named by the second in which *)
(* it is started (strftime('%Y%m%d_%H%M%S'), smart_camera.py:682-685), so  *)
(* a path is modelled by that timestamp.  last_motion_time, which is only  *)
(* reported by get_stats, is left out.                                     *)
(***************************************************************************)
EXTENDS Integers, Sequences, FiniteSets, TLC

None == -1

(* ---------------------------- bounds ----------------------------------- *)
\* time.time() when the camera object is constructed
StartTime == 100
\* the clock is followed for Horizon seconds
Horizon == 2
\* cap on stats['motion_events'] (events triggered in one behaviour)
MaxEvents == 2
\* cap on the disturbances met in one behaviour: failed starts, stops and
\* snapshot captures, and file-size overruns
MaxDisturbances == 1
\* concurrent callers of _start_recording in SpecStart
NumStarters == 3

(* ------------------------ configuration -------------------------------- *)
\* pi_camera.motion_detection.cooldown_seconds
motion_cooldown == 1
\* pi_camera.recording.post_record_seconds, given in tenths of a second
post_record_tenths == 1
\* pi_camera.recording.max_duration_seconds
max_record_duration == 2
\* event_detection.performance.frame_skip
frame_skip == 2
\* event_detection.performance.low_risk_hours.enabled
low_risk_enabled == TRUE
\* SmartCamera(config, media_uploader=...) was given an uploader
media_uploader_configured == TRUE
\* SmartCamera(config, aws_publisher=...) was given a publisher, and it is
\* connected to the broker
aws_publisher_configured == TRUE
aws_connected == TRUE
\* event_detection.cloud_publishing.enabled and the publish_telemetry
\* setting of the event type
publish_telemetry_enabled == TRUE

(* ----------------------- program constants ----------------------------- *)
motion_trigger_threshold == 3
\* "post_record_seconds * 30": frames per second assumed by the stop test
post_record_frame_factor == 30
\* seconds of recording after which the peak snapshot is taken
peak_snapshot_delay == 30
\* seconds of motion history kept by _classify_motion_pattern
history_window == 10
\* "Need at least 5 samples for pattern analysis"
min_pattern_samples == 5

\* consecutive_frames_without_motion > post_record_seconds * 30
PostRecordFrames == (post_record_tenths * post_record_frame_factor) \div 10

Min(a, b) == IF a < b THEN a ELSE b

VARIABLES
    now,                 \* time.time(), whole seconds
    cam,                 \* fields of the SmartCamera object
    clf,                 \* motion tracking fields of cam.event_classifier
    loop,                \* locals of _motion_detection_loop
    world,               \* what the camera did to its collaborators
    obs,                 \* what the last loop pass was (observation only)
    motion_stop_event,   \* threading.Event ending the detection loop
    recording_lock,      \* holder of cam.recording_lock, 0 when free
    pc,                  \* position of each concurrent _start_recording call
    scene,               \* what a classification is asked about
    tracker,             \* EventClassifier tracking with the whole history
    result               \* what the last classification returned

\* the classifier exercised on its own
classifier_vars == <<scene, tracker, result>>

vars ==
    <<now, cam, clf, loop, world, obs, motion_stop_event, recording_lock, pc,
      scene, tracker, result>>

(* ------------------------- initial objects ----------------------------- *)
\* SmartCamera.__init__, "State" .. "Stats"
NoClassification == [samples |-> 0, oldest_sample |-> None]

\* "H264Encoder(bitrate=2000000)" and the default of
\* pi_camera.recording.pre_record_seconds
encoder_bitrate == 2000000
pre_record_seconds == 10

\* a buffer sized for the bitrate alone
buffer_size_without_overhead(seconds) == (seconds * encoder_bitrate) \div 8

\* "int(self.pre_record_seconds * 2000000 / 8 * 1.2)": the division by 8 is
\* exact, and the product with the double 1.2 truncates to the same integer
\* as the product with 12/10 for every whole number of seconds up to an hour
buffer_size_bytes(seconds) == (((seconds * encoder_bitrate) \div 8) * 12) \div 10

\* "round(buffer_size_bytes / (1024 * 1024), 2)", in hundredths of a MB
buffer_size_mb(bytes) == (bytes * 100 + 524288) \div 1048576

\* _initialize_circular_buffer: CircularOutput(buffersize=buffer_size_bytes);
\* the field circular_output holds the buffersize of the object it refers to
initialize_circular_buffer(c) ==
    LET bytes == buffer_size_bytes(c.pre_record_seconds)
    IN [c EXCEPT !.circular_output = bytes,
                 !.stats.buffer_size_mb = buffer_size_mb(bytes)]

\* the object before __init__ calls _initialize_circular_buffer
\* the default of pi_camera.framerate
framerate == 30

ConstructedCam ==
    [max_record_duration |-> max_record_duration,
     framerate |-> framerate,
     pre_record_seconds |-> pre_record_seconds,
     circular_output |-> None,
     is_recording |-> FALSE,
     current_recording_path |-> None,
     recording_start_time |-> None,
     last_recording_end_time |-> 0,
     output_file |-> None,
     current_event_classification |-> NoClassification,
     event_snapshots |-> <<>>,
     event_snapshots_raw |-> <<>>,
     snapshot_start_captured |-> FALSE,
     snapshot_peak_captured |-> FALSE,
     stats |-> [motion_events |-> 0, recordings_saved |-> 0,
                snapshots_taken |-> 0, total_recording_seconds |-> 0,
                classified_events |-> 0, buffer_size_mb |-> 0]]

InitCam == initialize_circular_buffer(ConstructedCam)

\* locals of _motion_detection_loop before the while loop.  The two frame
\* counters are only compared with their thresholds and saturate just above
\* them; frame_counter is kept modulo frame_skip, the only use of its value
\* besides a log line.
InitLoop ==
    [consecutive_frames_without_motion |-> 0,
     consecutive_frames_with_motion |-> 0,
     motion_detected |-> FALSE,
     frame_counter |-> 0]

\* collaborators: number of files opened for writing, rows given to
\* store_event, number of videos given to media_uploader.queue_video,
\* capture_snapshot calls; and the number of disturbances the environment has
\* produced so far
\* local storage and the MediaUploader: the files that exist, the
\* upload_queue and the files an upload of which succeeded. They are followed
\* only where the upload worker runs (tracked); elsewhere the queue is
\* known by the count videos_queued alone.
NoMedia ==
    [tracked |-> FALSE, files |-> {}, upload_queue |-> <<>>, uploaded |-> {},
     upload_failures |-> 0, queue_size |-> 0, event_images |-> {}]

InitWorld ==
    [opens |-> 0, events_db |-> <<>>, videos_queued |-> 0,
     snapshot_calls |-> <<>>, disturbances |-> 0,
     mqtt_published_by_loop |-> 0, media |-> NoMedia]

\* observations: run is the number of consecutive processed frames with
\* motion up to the last processed frame (saturating like the length of
\* motion_history); session_end is when a session last stopped being active;
\* resumed tells that motion came back after a pause in the current event;
\* capture_failed tells that the last pass ended in the loop's except branch.
InitObs ==
    [run |-> 0, session_end |-> None, resumed |-> FALSE,
     capture_failed |-> FALSE]

State(c, k, l, w) == [cam |-> c, clf |-> k, loop |-> l, world |-> w]

(* ------------------- local files and the upload queue ------------------ *)
\* a file is known by what it holds and by the event or the time it was
\* made for
File(name, key) == [name |-> name, key |-> key]

\* a file appears on local storage
write_file(st, f) ==
    IF st.world.media.tracked
    THEN [st EXCEPT !.world.media.files = @ \cup {f}]
    ELSE st

\* Path(...).unlink() inside "try: ... except: pass"
unlink_files(st, fs) ==
    IF st.world.media.tracked
    THEN [st EXCEPT !.world.media.files = @ \ fs]
    ELSE st

\* whether a file can be read
file_exists(st, f) == ~st.world.media.tracked \/ f \in st.world.media.files

visual_max_attempts == 3
video_max_attempts == 5

\* the append to upload_queue of queue_visual_image and queue_video
queue_upload(st, f, type, max) ==
    IF st.world.media.tracked
    THEN [st EXCEPT !.world.media.upload_queue =
              Append(@, [file |-> f, type |-> type, attempts |-> 0,
                         max_attempts |-> max]),
                    !.world.media.queue_size =
                        Len(st.world.media.upload_queue) + 1]
    ELSE st

\* MediaUploader.queue_visual_image
queue_visual_image(st, f) == queue_upload(st, f, "visual", visual_max_attempts)

\* MediaUploader.queue_video
queue_video(st, f) ==
    queue_upload([st EXCEPT !.world.videos_queued = @ + 1], f, "video",
                 video_max_attempts)

(* ------------------------ _start_recording ----------------------------- *)
\* open(filepath, "wb") and the assignment to self.output_file
start_open(st, t) ==
    write_file([st EXCEPT !.cam.output_file = t,
                          !.world.opens = @ + 1],
               File("video", t))

\* the three assignments that make the session active; filepath is the
\* path the output file was opened at
start_commit(st, t) ==
    [st EXCEPT !.cam.is_recording = TRUE,
               !.cam.current_recording_path = st.cam.output_file,
               !.cam.recording_start_time = t]

\* except Exception: self.is_recording = False
start_except(st) == [st EXCEPT !.cam.is_recording = FALSE]

StartOutcomes == {"ok", "open_fails", "drain_fails"}

\* a start that does not look at is_recording first
start_recording_unguarded(st, t, outcome) ==
    IF outcome = "open_fails" THEN start_except(st)
    ELSE IF outcome = "drain_fails" THEN start_except(start_open(st, t))
    ELSE start_commit(start_open(st, t), t)

\* the whole body, run under the lock by one thread
start_recording(st, t, outcome) ==
    IF st.cam.is_recording THEN st
    ELSE IF outcome = "open_fails" THEN start_except(st)
    ELSE IF outcome = "drain_fails" THEN start_except(start_open(st, t))
    ELSE start_commit(start_open(st, t), t)

(* ------------------------- _stop_recording ----------------------------- *)
StopOutcomes == {"ok", "stop_fails", "queue_fails"}

\* statistics and last_recording_end_time, after circular_output.stop()
stop_account(st, t) ==
    [st EXCEPT !.cam.stats.total_recording_seconds =
                   IF st.cam.recording_start_time # None
                   THEN @ + (t - st.cam.recording_start_time) ELSE @,
               !.cam.stats.recordings_saved = @ + 1,
               !.cam.last_recording_end_time = t]

\* media_uploader.queue_video(self.current_recording_path, metadata)
stop_queue(st) ==
    IF media_uploader_configured
    THEN queue_video(st, File("video", st.cam.current_recording_path))
    ELSE st

\* "Reset state" and "Close file if opened"
stop_reset(st) ==
    [st EXCEPT !.cam.is_recording = FALSE,
               !.cam.current_recording_path = None,
               !.cam.recording_start_time = None,
               !.cam.output_file = None]

\* an except clause that only logs
stop_except_only_logs(st) == st

\* except Exception: self.is_recording = False
stop_except(st) == [st EXCEPT !.cam.is_recording = FALSE]

\* a stop that does not look at is_recording first
stop_recording_unguarded(st, t, outcome) ==
    IF outcome = "stop_fails" THEN stop_except(st)
    ELSE IF outcome = "queue_fails" /\ media_uploader_configured
         THEN stop_except(stop_account(st, t))
    ELSE stop_reset(stop_queue(stop_account(st, t)))

\* "if not self.is_recording: return", then the body under the lock
stop_recording(st, t, outcome) ==
    IF ~st.cam.is_recording THEN st
    ELSE IF outcome = "stop_fails" THEN stop_except(st)
    ELSE IF outcome = "queue_fails" /\ media_uploader_configured
         THEN stop_except(stop_account(st, t))
    ELSE stop_reset(stop_queue(stop_account(st, t)))

(* ------------------- EventClassifier motion tracking ------------------- *)
\* motion_history is kept as the timestamp of its oldest retained sample
\* and its length, which saturates at min_pattern_samples (the only length
\* the code tests); the centroid and area of a sample play no part in the
\* controller.
NoHistory == [oldest |-> None, n |-> 0]

\* self.motion_history.append({...})
history_append(h, t) ==
    [oldest |-> IF h.n = 0 THEN t ELSE h.oldest,
     n |-> Min(h.n + 1, min_pattern_samples)]

\* "Keep only recent history (last 10 seconds)".  Nothing is dropped while
\* the oldest sample is inside the window, which is so for every clock value
\* within Horizon; past the window only the sample just appended is known to
\* be retained.
recent_history(h, t) ==
    IF h.oldest > t - history_window THEN h ELSE [oldest |-> t, n |-> 1]

\* classify_event as far as it touches the tracking state: the first call
\* after a reset starts the tracking, every call appends one sample and
\* measures the duration from motion_start_time.  Of the result the model
\* keeps the retained samples it was computed over.
classify_event(st, t) ==
    LET fresh == st.clf.motion_start_time = None
        start == IF fresh THEN t ELSE st.clf.motion_start_time
        h0    == IF fresh THEN NoHistory ELSE st.clf.motion_history
        h1    == recent_history(history_append(h0, t), t)
    IN [st EXCEPT !.clf.motion_start_time = start,
                  !.clf.motion_history = h1,
                  !.cam.current_event_classification =
                      [samples |-> h1.n, oldest_sample |-> h1.oldest]]

\* EventClassifier.__init__, "Motion tracking for pattern analysis"
InitClf == [motion_history |-> NoHistory, motion_start_time |-> None]

reset_motion_tracking(st) ==
    [st EXCEPT !.clf.motion_history = NoHistory,
               !.clf.motion_start_time = None]

(* --------------------- EventClassifier verdicts ------------------------ *)
\* Confidences are kept in ten-thousandths (0.85 is 8500), rounded down;
\* sizes are compared as fractions of the frame without rounding.
BUSINESS_START_HOUR == 8
BUSINESS_END_HOUR == 17
BUSINESS_DAYS == 0..4
\* percent of the frame
ANIMAL_SIZE_THRESHOLD == 20
MAINTENANCE_SIZE_THRESHOLD == 30
\* seconds
ANIMAL_DURATION_THRESHOLD == 30
MAINTENANCE_DURATION_THRESHOLD == 120
SUSTAINED_MOTION_DURATION == 3
\* direction changes per second, in tenths
ERRATIC_MOTION_THRESHOLD == 6
\* frame.shape[:2] of the preview stream, motion_detection_resolution
frame_width == 640
frame_height == 480
frame_area == frame_width * frame_height

Verdict(c, conf) == [class |-> c, conf |-> conf]

\* a time classifier with a class of its own for the weekend
classify_time_with_weekend(hour, weekday) ==
    IF weekday \notin BUSINESS_DAYS THEN Verdict("weekend", 9000)
    ELSE IF BUSINESS_START_HOUR <= hour /\ hour < BUSINESS_END_HOUR
    THEN Verdict("business_hours", 8000)
    ELSE Verdict("off_hours", 9000)

\* business hours that include 17:00 to 17:59
classify_time_until_end_hour(hour, weekday) ==
    IF /\ BUSINESS_START_HOUR <= hour
       /\ hour <= BUSINESS_END_HOUR
       /\ weekday \in BUSINESS_DAYS
    THEN Verdict("business_hours", 8000)
    ELSE Verdict("off_hours", 9000)

\* _classify_time
classify_time(hour, weekday) ==
    IF /\ BUSINESS_START_HOUR <= hour
       /\ hour < BUSINESS_END_HOUR
       /\ weekday \in BUSINESS_DAYS
    THEN Verdict("business_hours", 8000)
    ELSE Verdict("off_hours", 9000)

\* the fraction of the frame an area covers, in ten-thousandths
area_fraction(area) == ((area * 1000) \div frame_area) * 10

\* a size test that compares the pixel count itself with the thresholds
classify_size_in_pixels(area) ==
    IF area = None THEN Verdict("unknown", 0)
    ELSE IF area * 100 < ANIMAL_SIZE_THRESHOLD THEN Verdict("small", 9000)
    ELSE IF area * 100 > MAINTENANCE_SIZE_THRESHOLD THEN Verdict("large", 9500)
    ELSE Verdict("medium", 5000)

\* "sum(cv2.contourArea(c) for c in contours)"; a contour is kept as its
\* area
RECURSIVE sum_of_areas(_)
sum_of_areas(contours) ==
    IF contours = <<>> THEN 0
    ELSE Head(contours) + sum_of_areas(Tail(contours))

\* the size taken from all contours together
largest_area_is_total(contours) == sum_of_areas(contours)

\* "cv2.contourArea(max(contours, key=cv2.contourArea))"
RECURSIVE largest_area(_)
largest_area(contours) ==
    IF Len(contours) = 1 THEN Head(contours)
    ELSE LET rest == largest_area(Tail(contours))
         IN IF Head(contours) >= rest THEN Head(contours) ELSE rest

\* _classify_size from the largest area on (None: no contours)
classify_size(area) ==
    IF area = None THEN Verdict("unknown", 0)
    ELSE IF area * 100 < ANIMAL_SIZE_THRESHOLD * frame_area
    THEN Verdict("small",
                 Min(9000, 5000 + (ANIMAL_SIZE_THRESHOLD * 100
                                      - area_fraction(area)) * 4))
    ELSE IF area * 100 > MAINTENANCE_SIZE_THRESHOLD * frame_area
    THEN Verdict("large",
                 Min(9500, 6000 + (area_fraction(area)
                                      - MAINTENANCE_SIZE_THRESHOLD * 100) * 2))
    ELSE Verdict("medium", 5000)

\* _classify_motion_pattern over a history of n samples spanning span
\* seconds with the given number of direction changes; slow is
\* "avg_speed < 50"
classify_motion_pattern(n, span, changes, slow) ==
    IF n < min_pattern_samples THEN Verdict("initializing", 3000)
    ELSE IF span > 0 /\ changes * 10 > ERRATIC_MOTION_THRESHOLD * span
    THEN Verdict("erratic", Min(8500, 5000 + (changes * 10000) \div span))
    ELSE IF span >= SUSTAINED_MOTION_DURATION /\ slow
    THEN Verdict("sustained", Min(8500, 5000 + span * 1000))
    ELSE Verdict("steady", 5000)

\* _classify_size(contours): class, confidence and total area
classify_contours(contours) ==
    IF contours = <<>>
    THEN [class |-> "unknown", conf |-> 0, total_area |-> 0]
    ELSE LET v == classify_size(largest_area(contours))
         IN [class |-> v.class, conf |-> v.conf,
             total_area |-> sum_of_areas(contours)]

\* RULE 2 with the "+ 0.4" left out
animal_confidence_unshifted(size_conf) == Min(9200, (size_conf * 6) \div 10)

\* RULE 2: min(0.92, size_conf * 0.6 + 0.4)
animal_confidence(size_conf) == Min(9200, (size_conf * 6) \div 10 + 4000)

\* RULE 4 with the cap of RULE 1
security_confidence_cap_95(time_conf, size_class, size_conf) ==
    IF size_class = "large"
    THEN Min(9500, (time_conf * 5) \div 10 + (size_conf * 5) \div 10)
    ELSE Min(7500, (time_conf * 85) \div 100)

\* RULE 4: the confidence of an off-hours event
security_confidence(time_conf, size_class, size_conf) ==
    IF size_class = "large"
    THEN Min(9000, (time_conf * 5) \div 10 + (size_conf * 5) \div 10)
    ELSE Min(7500, (time_conf * 85) \div 100)

Outcome(e, conf) == [event_type |-> e, confidence_score |-> conf]

\* the rules with the off-hours rule tried before the animal rules, the
\* order of the docstring
combine_off_hours_first(time_class, time_conf, size_class, size_conf, pattern_class, pattern_conf, duration_seconds) ==
    IF time_class = "off_hours"
    THEN Outcome("security_breach",
                 security_confidence(time_conf, size_class, size_conf))
    ELSE IF size_class = "small"
    THEN Outcome("animal", animal_confidence(size_conf))
    ELSE IF size_class = "large"
            /\ (duration_seconds > MAINTENANCE_DURATION_THRESHOLD
                \/ pattern_class = "sustained")
    THEN Outcome("maintenance_visit", 8500)
    ELSE IF pattern_class = "erratic"
    THEN Outcome("animal", Min(7000, (pattern_conf * 8) \div 10))
    ELSE Outcome("maintenance_visit", Min(5500, (time_conf * 65) \div 100))

\* _combine_classifications
combine_classifications(time_class, time_conf, size_class, size_conf, pattern_class, pattern_conf, duration_seconds) ==
    IF /\ time_class = "business_hours"
       /\ size_class = "large"
       /\ duration_seconds > MAINTENANCE_DURATION_THRESHOLD
    THEN Outcome("maintenance_visit",
                 Min(9500, (time_conf * 3) \div 10
                              + (size_conf * 4) \div 10 + 3000))
    ELSE IF /\ size_class = "small"
            /\ duration_seconds < ANIMAL_DURATION_THRESHOLD
    THEN Outcome("animal", animal_confidence(size_conf))
    ELSE IF size_class = "small"
    THEN Outcome("animal", Min(8500, (size_conf * 9) \div 10))
    ELSE IF time_class = "off_hours"
    THEN Outcome("security_breach",
                 security_confidence(time_conf, size_class, size_conf))
    ELSE IF /\ time_class = "business_hours"
            /\ size_class = "large"
            /\ pattern_class = "sustained"
    THEN Outcome("maintenance_visit",
                 Min(8500, (time_conf * 4) \div 10 + (size_conf * 3) \div 10
                              + (pattern_conf * 3) \div 10))
    ELSE IF time_class = "business_hours" /\ pattern_class = "erratic"
    THEN Outcome("animal", Min(7000, (pattern_conf * 8) \div 10))
    ELSE IF time_class = "business_hours"
    THEN Outcome("maintenance_visit", Min(5500, (time_conf * 65) \div 100))
    ELSE Outcome("security_breach", Min(5000, (time_conf * 60) \div 100))

\* the dictionary classify_event returns, with the duration it was computed
\* for
Result(out, area, time, size, pattern, duration_seconds) ==
    [event_type |-> out.event_type,
     confidence_score |-> out.confidence_score,
     motion_area |-> area,
     motion_pattern |-> pattern,
     time_classification |-> time,
     size_classification |-> size,
     duration_seconds |-> duration_seconds]

NoResult ==
    Result(Outcome("none", None), None, "none", "none", "none", None)

\* the tracking fields with every retained sample (its timestamp), and the
\* number of frames looked at
InitTracker ==
    [motion_start_time |-> None, motion_history |-> <<>>, frames |-> 0]

\* no classification is asked for
NoScene == [kind |-> "none"]

\* a window that keeps the sample taken exactly ten seconds ago
InHistoryWindowInclusive(x, t) == x >= t - history_window

InHistoryWindow(x, t) == x > t - history_window

\* reset_motion_tracking on the tracking fields kept with every sample
reset_tracker(tr) ==
    [tr EXCEPT !.motion_history = <<>>, !.motion_start_time = None]

\* classify_event(contours, frame_shape, timestamp) for one contour of
\* sc.area pixels seen at t; the centroid moves so that every step turns by
\* more than 45 degrees (sc.zigzag) or never turns
classify_scene(tr, t, sc) ==
    LET fresh   == tr.motion_start_time = None
        start   == IF fresh THEN t ELSE tr.motion_start_time
        h0      == IF fresh THEN <<>> ELSE tr.motion_history
        time    == classify_time(sc.hour, sc.weekday)
        size    == classify_contours(<<sc.area>>)
        h1      == SelectSeq(Append(h0, t), LAMBDA x : InHistoryWindow(x, t))
        n       == Len(h1)
        changes == IF sc.zigzag /\ n > 2 THEN n - 2 ELSE 0
        pattern == classify_motion_pattern(n, h1[n] - h1[1], changes, sc.slow)
        out     == combine_classifications(time.class, time.conf,
                                           size.class, size.conf,
                                           pattern.class, pattern.conf,
                                           t - start)
    IN [tracker |-> [motion_start_time |-> start,
                     motion_history |-> h1,
                     frames |-> tr.frames + 1],
        result |-> Result(out, sc.area, time.class, size.class,
                          pattern.class, t - start)]

(* --------------------------- snapshots --------------------------------- *)
\* capture_snapshot(custom_name=...): ok is whether the capture worked; a
\* failure is absorbed and None returned
capture_snapshot(st, name, ok) ==
    LET f  == File(name, st.cam.stats.motion_events)
        s1 == [st EXCEPT !.world.snapshot_calls =
                             Append(@, [name |-> name,
                                        event |-> st.cam.stats.motion_events])]
        s2 == write_file([s1 EXCEPT !.cam.stats.snapshots_taken = @ + 1], f)
    IN IF ~ok THEN s1
       ELSE IF media_uploader_configured THEN queue_visual_image(s2, f)
       ELSE s2

\* the path capture_snapshot returned for a phase of the current event
raw_path(st, phase) ==
    File(CASE phase = "start" -> "event_start_raw"
           [] phase = "peak" -> "event_peak_raw"
           [] phase = "end" -> "event_end_raw",
         st.cam.stats.motion_events)

\* "snapshot_types[i] if i < len(snapshot_types) else 'extra'"
snapshot_type(i) ==
    IF i = 1 THEN "start" ELSE IF i = 2 THEN "peak"
    ELSE IF i = 3 THEN "end" ELSE "extra"

\* SnapshotManager.process_event_snapshot writes "{time_str}_{snapshot_type}.jpg"
\* under EVENT_IMAGE_PATH: an image of the event that holds the picture of
\* the phase it was captured in and is named after the tag it was given
save_event_images(st, images) ==
    IF st.world.media.tracked
    THEN [st EXCEPT !.world.media.event_images =
              @ \cup {[event |-> st.cam.stats.motion_events,
                        captured |-> e.captured, tagged |-> e.tagged] :
                       e \in images}]
    ELSE st

\* "Process all raw snapshots through event snapshot manager"
process_event_snapshots(st) ==
    IF st.cam.current_event_classification # NoClassification
       /\ st.cam.event_snapshots_raw # <<>>
    THEN LET raw == st.cam.event_snapshots_raw
              all == [i \in 1..Len(raw) |->
                         [captured |-> raw[i], tagged |-> snapshot_type(i)]]
              processed(e) == file_exists(st, raw_path(st, e.captured))
              saved == SelectSeq(all, processed)
              s1 == [st EXCEPT !.cam.event_snapshots = @ \o saved]
              s2 == save_event_images(s1, {saved[i] : i \in 1..Len(saved)})
         IN unlink_files(s2, {raw_path(st, raw[i]) : i \in 1..Len(raw)})
    ELSE st

(* ------------------- storing the classified event ---------------------- *)
\* "if self.current_event_classification:" event_classifier.store_event(...)
\* A row records the event it was stored for (the value of
\* stats['motion_events']), which of the two stop paths stored it and
\* whether the recording session was still active at the call.
store_event(st, forced) ==
    IF st.cam.current_event_classification # NoClassification
    THEN [st EXCEPT !.world.events_db =
                        Append(@, [event |-> st.cam.stats.motion_events,
                                   session_active |-> st.cam.is_recording,
                                   forced |-> forced]),
                    !.cam.stats.classified_events = @ + 1]
    ELSE st

\* AWSPublisher.publish_telemetry called by the thread of the loop: when
\* connected it throttles and calls mqtt_client.publish itself, otherwise it
\* buffers the data and appends it to failed_upload_queue
publish_telemetry(st) ==
    IF aws_connected
    THEN [st EXCEPT !.world.mqtt_published_by_loop = @ + 1]
    ELSE st

\* _publish_event_to_cloud, called after store_event and log_event inside
\* "if self.current_event_classification"; upload_image does nothing
publish_event_to_cloud(st) ==
    IF /\ st.cam.current_event_classification # NoClassification
       /\ aws_publisher_configured
       /\ publish_telemetry_enabled
    THEN publish_telemetry(st)
    ELSE st

\* "Stop recording and reset classification"
finish_event(st, t, stop_outcome) ==
    LET s1 == stop_recording(st, t, stop_outcome)
        s2 == [s1 EXCEPT !.cam.current_event_classification = NoClassification,
                         !.cam.event_snapshots = <<>>]
    IN reset_motion_tracking(s2)

(* --------------------- _motion_detection_loop -------------------------- *)
\* what one processed frame can meet: whether a contour larger than
\* motion_min_area is in the frame, how a start or stop of the recording and
\* a snapshot capture turn out, whether the file outgrew max_file_size_bytes.
\* At most one of these goes wrong in one pass.
Disturbances ==
    {"none", "open_fails", "drain_fails", "stop_fails", "queue_fails",
     "snap_fails", "size_exceeded"}

FrameInput(m, d) ==
    [motion |-> m,
     start_outcome |-> IF d \in {"open_fails", "drain_fails"} THEN d ELSE "ok",
     stop_outcome |-> IF d \in {"stop_fails", "queue_fails"} THEN d ELSE "ok",
     snap_ok |-> d # "snap_fails",
     size_exceeded |-> d = "size_exceeded"]

\* a peak capture that does not remember that it was made
peak_snapshot_not_remembered(st, t, in) ==
    IF /\ st.loop.motion_detected
       /\ ~st.cam.snapshot_peak_captured
       /\ st.cam.recording_start_time # None
       /\ t - st.cam.recording_start_time > peak_snapshot_delay
    THEN LET s1 == capture_snapshot(st, "event_peak_raw", in.snap_ok)
         IN IF in.snap_ok
            THEN [s1 EXCEPT !.cam.event_snapshots_raw = Append(@, "peak")]
            ELSE s1
    ELSE st

\* "Capture PEAK snapshot (after 30 seconds of motion, if not already
\* captured)"
peak_snapshot(st, t, in) ==
    IF /\ st.loop.motion_detected
       /\ ~st.cam.snapshot_peak_captured
       /\ st.cam.recording_start_time # None
       /\ t - st.cam.recording_start_time > peak_snapshot_delay
    THEN LET s1 == capture_snapshot(st, "event_peak_raw", in.snap_ok)
         IN IF in.snap_ok
            THEN [s1 EXCEPT !.cam.event_snapshots_raw = Append(@, "peak"),
                            !.cam.snapshot_peak_captured = TRUE]
            ELSE s1
    ELSE st

\* "if time_since_last_recording >= self.motion_cooldown"
cooldown_elapsed(st, t) ==
    t - st.cam.last_recording_end_time >= motion_cooldown

\* "Trigger recording after consecutive motion frames"
trigger_recording(st, t, in) ==
    IF /\ ~st.loop.motion_detected
       /\ st.loop.consecutive_frames_with_motion >= motion_trigger_threshold
       /\ cooldown_elapsed(st, t)
    THEN LET s1 == [st EXCEPT !.loop.motion_detected = TRUE,
                              !.cam.stats.motion_events = @ + 1,
                              !.cam.event_snapshots = <<>>,
                              !.cam.event_snapshots_raw = <<>>,
                              !.cam.snapshot_start_captured = FALSE,
                              !.cam.snapshot_peak_captured = FALSE]
             s2 == start_recording(s1, t, in.start_outcome)
             s3 == capture_snapshot(s2, "event_start_raw", in.snap_ok)
         IN IF in.snap_ok
            THEN [s3 EXCEPT !.cam.event_snapshots_raw = Append(@, "start"),
                            !.cam.snapshot_start_captured = TRUE]
            ELSE s3
    ELSE st

\* a motion frame that leaves the still-frame counter alone
count_motion_frame_no_reset(l) ==
    [l EXCEPT !.consecutive_frames_with_motion =
                  Min(@ + 1, motion_trigger_threshold)]

\* "consecutive_frames_with_motion += 1;
\*  consecutive_frames_without_motion = 0"
count_motion_frame(l) ==
    [l EXCEPT !.consecutive_frames_with_motion =
                  Min(@ + 1, motion_trigger_threshold),
              !.consecutive_frames_without_motion = 0]

\* a still frame that leaves the motion-frame counter alone
count_still_frame_no_reset(l) ==
    [l EXCEPT !.consecutive_frames_without_motion =
                  Min(@ + 1, PostRecordFrames + 1)]

\* "consecutive_frames_with_motion = 0;
\*  consecutive_frames_without_motion += 1"
count_still_frame(l) ==
    [l EXCEPT !.consecutive_frames_with_motion = 0,
              !.consecutive_frames_without_motion =
                  Min(@ + 1, PostRecordFrames + 1)]

\* "Motion detection logic with debouncing"
motion_branch(st, t, in) ==
    IF in.motion
    THEN LET s1 == [st EXCEPT !.loop = count_motion_frame(@)]
         IN trigger_recording(peak_snapshot(classify_event(s1, t), t, in),
                              t, in)
    ELSE [st EXCEPT !.loop = count_still_frame(@)]

\* "consecutive_frames_without_motion > (self.post_record_seconds * 30)"
post_record_over(st) ==
    st.loop.consecutive_frames_without_motion > PostRecordFrames

\* "Stop recording after post-record period"
end_of_event(st, t, in) ==
    IF st.loop.motion_detected /\ post_record_over(st)
    THEN LET s1 == [st EXCEPT !.loop.motion_detected = FALSE,
                              !.loop.consecutive_frames_with_motion = 0]
             s2 == capture_snapshot(s1, "event_end_raw", in.snap_ok)
             s3 == IF in.snap_ok
                   THEN [s2 EXCEPT !.cam.event_snapshots_raw = Append(@, "end")]
                   ELSE s2
             s4 == process_event_snapshots(s3)
         IN finish_event(publish_event_to_cloud(store_event(s4, FALSE)),
                         t, in.stop_outcome)
    ELSE st

\* the limit tested with > instead of >=
duration_exceeded(st, t) ==
    t - st.cam.recording_start_time > st.cam.max_record_duration

\* "recording_duration >= self.max_record_duration"
duration_reached(st, t) ==
    t - st.cam.recording_start_time >= st.cam.max_record_duration

\* "recording_duration >= self.max_record_duration or file_size_exceeded"
limit_reached(st, t, in) ==
    \/ duration_reached(st, t)
    \/ in.size_exceeded /\ st.cam.current_recording_path # None

\* a forced stop that leaves motion_detected set
forced_stop_event_goes_on(st, t, in) ==
    finish_event(publish_event_to_cloud(store_event(st, TRUE)),
                 t, in.stop_outcome)

\* the forced stop: "motion_detected = False", "Store event even if max
\* duration reached", stop and reset
forced_stop(st, t, in) ==
    LET s1 == [st EXCEPT !.loop.motion_detected = FALSE]
    IN finish_event(publish_event_to_cloud(store_event(s1, TRUE)),
                    t, in.stop_outcome)

\* "Safety: Stop recording if max duration reached OR file too large"
safety_limit(st, t, in) ==
    IF /\ st.cam.is_recording
       /\ st.cam.recording_start_time # None
       /\ limit_reached(st, t, in)
    THEN forced_stop(st, t, in)
    ELSE st

\* one pass of the while loop that processes a frame
process_frame(st, t, in) ==
    safety_limit(end_of_event(motion_branch(st, t, in), t, in), t, in)

\* "frame_counter += 1" and the test "frame_counter % self.frame_skip != 0"
next_frame_counter(l) == (l.frame_counter + 1) % frame_skip

\* "while not self.motion_stop_event.is_set()": a pass runs when the test
\* found the event unset; a pass that was past the test when the event was
\* set (pc[1] = "in_pass") runs to its end and the loop then exits
LoopRuns ==
    /\ UNCHANGED classifier_vars
    /\ ~motion_stop_event \/ pc[1] = "in_pass"
    /\ pc' = IF motion_stop_event THEN [pc EXCEPT ![1] = "exited"] ELSE pc
    /\ UNCHANGED <<now, motion_stop_event, recording_lock>>

\* low-risk hours: the pass only sleeps one second
LowRiskPass ==
    /\ LoopRuns
    /\ low_risk_enabled
    /\ loop' = [loop EXCEPT !.frame_counter = next_frame_counter(loop)]
    /\ obs' = [obs EXCEPT !.capture_failed = FALSE]
    /\ UNCHANGED <<cam, clf, world>>

\* frame skipping: the pass only sleeps sleep_between_checks
SkipPass ==
    /\ LoopRuns
    /\ next_frame_counter(loop) # 0
    /\ loop' = [loop EXCEPT !.frame_counter = next_frame_counter(loop)]
    /\ obs' = [obs EXCEPT !.capture_failed = FALSE]
    /\ UNCHANGED <<cam, clf, world>>

\* an except branch that starts the detection over
capture_failed_resets(l) == InitLoop

\* camera.capture_array raises after "frame_counter += 1": the except branch
\* logs and sleeps one second, the locals of the loop keep their values
capture_failed(l) == [l EXCEPT !.frame_counter = next_frame_counter(l)]

ErrorPass ==
    /\ LoopRuns
    /\ next_frame_counter(loop) = 0
    /\ loop' = capture_failed(loop)
    /\ obs' = [obs EXCEPT !.capture_failed = TRUE]
    /\ UNCHANGED <<cam, clf, world>>

FramePass ==
    /\ LoopRuns
    /\ next_frame_counter(loop) = 0
    /\ \E m \in BOOLEAN :
         LET l0   == [loop EXCEPT !.frame_counter = 0]
             s0   == State(cam, clf, l0, world)
             calm == process_frame(s0, now, FrameInput(m, "none"))
         IN \E dist \in Disturbances :
              LET r == IF dist = "none" THEN calm
                       ELSE process_frame(s0, now, FrameInput(m, dist))
                  d == IF dist = "none" THEN world.disturbances
                       ELSE world.disturbances + 1
              IN /\ d <= MaxDisturbances
                 /\ dist # "none" => r # calm
                 /\ r.cam.stats.motion_events <= MaxEvents
                 /\ cam' = r.cam
                 /\ clf' = r.clf
                 /\ loop' = r.loop
                 /\ world' = [r.world EXCEPT !.disturbances = d]
                 /\ obs' = [run |-> IF m THEN Min(obs.run + 1, min_pattern_samples)
                                    ELSE 0,
                            session_end |->
                                IF cam.is_recording /\ ~r.cam.is_recording
                                THEN now ELSE obs.session_end,
                            resumed |->
                                /\ r.loop.motion_detected
                                /\ loop.motion_detected
                                /\ \/ obs.resumed
                                   \/ /\ m
                                      /\ loop.consecutive_frames_without_motion > 0,
                            capture_failed |-> FALSE]

\* stop_monitoring: end the loop, then stop an active recording
StopMonitoring ==
    /\ UNCHANGED classifier_vars
    /\ ~motion_stop_event
    /\ motion_stop_event' = TRUE
    /\ \E outcome \in StopOutcomes :
         LET s0 == State(cam, clf, loop, world)
             r  == IF cam.is_recording
                   THEN stop_recording(s0, now, outcome) ELSE s0
             d  == IF outcome = "ok" THEN world.disturbances
                   ELSE world.disturbances + 1
         IN /\ d <= MaxDisturbances
            /\ outcome # "ok" => cam.is_recording
            /\ cam' = r.cam
            /\ world' = [r.world EXCEPT !.disturbances = d]
            /\ obs' = [obs EXCEPT !.session_end =
                           IF cam.is_recording THEN now ELSE @]
    /\ UNCHANGED <<now, clf, loop, recording_lock, pc>>

\* a second passes (the clock is followed while the loop runs)
Tick ==
    /\ UNCHANGED classifier_vars
    /\ ~motion_stop_event
    /\ now < StartTime + Horizon
    /\ now' = now + 1
    /\ UNCHANGED <<cam, clf, loop, world, obs, motion_stop_event,
                   recording_lock, pc>>

(* -------------- concurrent callers of _start_recording ----------------- *)
Starters == 1..NumStarters

\* a lock that never blocks
LockAlwaysFree(l) == TRUE

\* "with self.recording_lock:" can be entered
LockFree(l) == l = 0

SetCam(r) == cam' = r.cam /\ world' = r.world

\* leaving the with block by return or after the except clause
Return(i, label) ==
    /\ pc' = [pc EXCEPT ![i] = label]
    /\ recording_lock' = 0

Acquire(i) ==
    /\ UNCHANGED classifier_vars
    /\ pc[i] = "wait"
    /\ LockFree(recording_lock)
    /\ recording_lock' = i
    /\ pc' = [pc EXCEPT ![i] = "check"]
    /\ UNCHANGED <<now, cam, clf, loop, world, obs, motion_stop_event>>

\* "if self.is_recording: return"
CheckRecording(i) ==
    /\ UNCHANGED classifier_vars
    /\ pc[i] = "check"
    /\ IF cam.is_recording
       THEN Return(i, "ignored")
       ELSE pc' = [pc EXCEPT ![i] = "open"] /\ UNCHANGED recording_lock
    /\ UNCHANGED <<now, cam, clf, loop, world, obs, motion_stop_event>>

\* self.output_file = open(filepath, "wb")
OpenOutput(i) ==
    /\ UNCHANGED classifier_vars
    /\ pc[i] = "open"
    /\ \/ /\ SetCam(start_open(State(cam, clf, loop, world), now))
          /\ pc' = [pc EXCEPT ![i] = "drain"]
          /\ UNCHANGED recording_lock
       \/ /\ SetCam(start_except(State(cam, clf, loop, world)))
          /\ Return(i, "open_failed")
    /\ UNCHANGED <<now, clf, loop, obs, motion_stop_event>>

\* self.circular_output.fileoutput = ...; self.circular_output.start()
StartDrain(i) ==
    /\ UNCHANGED classifier_vars
    /\ pc[i] = "drain"
    /\ \/ /\ pc' = [pc EXCEPT ![i] = "commit"]
          /\ UNCHANGED <<cam, world, recording_lock>>
       \/ /\ SetCam(start_except(State(cam, clf, loop, world)))
          /\ Return(i, "drain_failed")
    /\ UNCHANGED <<now, clf, loop, obs, motion_stop_event>>

\* is_recording, current_recording_path, recording_start_time are set
CommitSession(i) ==
    /\ UNCHANGED classifier_vars
    /\ pc[i] = "commit"
    /\ SetCam(start_commit(State(cam, clf, loop, world), now))
    /\ Return(i, "started")
    /\ UNCHANGED <<now, clf, loop, obs, motion_stop_event>>

Init ==
    /\ now = StartTime
    /\ cam = InitCam
    /\ clf = InitClf
    /\ loop = InitLoop
    /\ world = InitWorld
    /\ obs = InitObs
    /\ motion_stop_event = FALSE
    /\ recording_lock = 0
    /\ pc = [i \in 1..NumStarters |-> "idle"]
    /\ scene = NoScene
    /\ tracker = InitTracker
    /\ result = NoResult

Next ==
    \/ LowRiskPass
    \/ SkipPass
    \/ ErrorPass
    \/ FramePass
    \/ StopMonitoring
    \/ Tick

Spec == Init /\ [][Next]_vars

\* concurrent _start_recording calls issued while no session is active
InitStart ==
    /\ now = StartTime
    /\ cam = InitCam
    /\ clf = InitClf
    /\ loop = InitLoop
    /\ world = InitWorld
    /\ obs = InitObs
    /\ motion_stop_event = FALSE
    /\ recording_lock = 0
    /\ pc = [i \in Starters |-> "wait"]
    /\ scene = NoScene
    /\ tracker = InitTracker
    /\ result = NoResult

NextStart ==
    \/ \E i \in Starters : Acquire(i)
    \/ \E i \in Starters : CheckRecording(i)
    \/ \E i \in Starters : OpenOutput(i)
    \/ \E i \in Starters : StartDrain(i)
    \/ \E i \in Starters : CommitSession(i)
    \/ Tick

SpecStart == InitStart /\ [][NextStart]_vars

(* ------------- stop_monitoring beside a running loop ------------------- *)
\* pc[1] is where the loop thread is when the event is set ("in_pass": past
\* the while test, "exited": the test saw the event), pc[2] where the thread
\* in stop_monitoring is ("joining", "joined", "returned").
join_timeout == 5

\* self.motion_stop_event.set()
RequestStop ==
    /\ UNCHANGED classifier_vars
    /\ ~motion_stop_event
    /\ pc[2] = "idle"
    /\ motion_stop_event' = TRUE
    /\ \E at \in {"in_pass", "exited"} :
         pc' = [pc EXCEPT ![1] = at, ![2] = "joining"]
    /\ UNCHANGED <<now, cam, clf, loop, world, obs, recording_lock>>

\* self.motion_thread.join(timeout=5): the loop thread has ended
JoinReturns ==
    /\ UNCHANGED classifier_vars
    /\ pc[2] = "joining"
    /\ pc[1] = "exited"
    /\ pc' = [pc EXCEPT ![2] = "joined"]
    /\ UNCHANGED <<now, cam, clf, loop, world, obs, motion_stop_event,
                   recording_lock>>

\* self.motion_thread.join(timeout=5): five seconds went by and the pass has
\* not ended
JoinTimesOut ==
    /\ UNCHANGED classifier_vars
    /\ pc[2] = "joining"
    /\ pc[1] = "in_pass"
    /\ now' = now + join_timeout
    /\ pc' = [pc EXCEPT ![2] = "joined"]
    /\ UNCHANGED <<cam, clf, loop, world, obs, motion_stop_event,
                   recording_lock>>

\* "if self.is_recording: self._stop_recording()", then stop_monitoring
\* returns
StopActiveRecording ==
    /\ UNCHANGED classifier_vars
    /\ pc[2] = "joined"
    /\ \E outcome \in StopOutcomes :
         LET s0 == State(cam, clf, loop, world)
             r  == IF cam.is_recording
                   THEN stop_recording(s0, now, outcome) ELSE s0
             d  == IF outcome = "ok" THEN world.disturbances
                   ELSE world.disturbances + 1
         IN /\ d <= MaxDisturbances
            /\ outcome # "ok" => cam.is_recording
            /\ cam' = r.cam
            /\ world' = [r.world EXCEPT !.disturbances = d]
            /\ obs' = [obs EXCEPT !.session_end =
                           IF cam.is_recording THEN now ELSE @]
    /\ pc' = [pc EXCEPT ![2] = "returned"]
    /\ UNCHANGED <<now, clf, loop, motion_stop_event, recording_lock>>

NextShutdown ==
    \/ LowRiskPass
    \/ SkipPass
    \/ ErrorPass
    \/ FramePass
    \/ Tick
    \/ RequestStop
    \/ JoinReturns
    \/ JoinTimesOut
    \/ StopActiveRecording

SpecShutdown == Init /\ [][NextShutdown]_vars

(* ------------- an event that lasts past the peak delay ----------------- *)
\* The camera is built with the default max_duration_seconds, so that a
\* session can be older than the 30 seconds the peak snapshot waits for.  The
\* clock is not followed second by second: it goes on once, by the peak
\* delay or by a second more (frames that come in between and change nothing
\* are left out), which leaves a session begun before exactly as old as the
\* peak delay or older.
default_max_duration == 60

LongWait ==
    /\ UNCHANGED classifier_vars
    /\ ~motion_stop_event
    /\ now = StartTime
    /\ \E d \in {peak_snapshot_delay, peak_snapshot_delay + 1} : now' = now + d
    /\ UNCHANGED <<cam, clf, loop, world, obs, motion_stop_event,
                   recording_lock, pc>>

InitLong ==
    /\ now = StartTime
    /\ cam = [InitCam EXCEPT !.max_record_duration = default_max_duration]
    /\ clf = InitClf
    /\ loop = InitLoop
    /\ world = InitWorld
    /\ obs = InitObs
    /\ motion_stop_event = FALSE
    /\ recording_lock = 0
    /\ pc = [i \in 1..NumStarters |-> "idle"]
    /\ scene = NoScene
    /\ tracker = InitTracker
    /\ result = NoResult

NextLong ==
    \/ LowRiskPass
    \/ SkipPass
    \/ ErrorPass
    \/ FramePass
    \/ LongWait

SpecLong == InitLong /\ [][NextLong]_vars

(* ------------ _start_recording / _stop_recording called directly ------- *)
\* One caller makes the calls one after the other, in any order, as
\* tests/test_smart_camera.py does; pc[1] tells what its last call did.
StopLabels ==
    {"stopped", "stop_failed", "queue_failed", "stop_ignored", "stopped_twice"}

start_label(recording, outcome) ==
    IF recording THEN "ignored"
    ELSE IF outcome = "open_fails" THEN "open_failed"
    ELSE IF outcome = "drain_fails" THEN "drain_failed"
    ELSE "started"

stop_label(recording, outcome, last) ==
    IF ~recording
    THEN IF last \in StopLabels THEN "stopped_twice" ELSE "stop_ignored"
    ELSE IF outcome = "stop_fails" THEN "stop_failed"
    ELSE IF outcome = "queue_fails" /\ media_uploader_configured
         THEN "queue_failed"
    ELSE "stopped"

CallStart ==
    /\ UNCHANGED classifier_vars
    /\ cam.is_recording \/ world.opens < MaxEvents
    /\ \E outcome \in StartOutcomes :
         LET r == start_recording(State(cam, clf, loop, world), now, outcome)
             d == IF outcome = "ok" THEN world.disturbances
                  ELSE world.disturbances + 1
         IN /\ d <= MaxDisturbances
            /\ outcome # "ok" => ~cam.is_recording
            /\ cam' = r.cam
            /\ world' = [r.world EXCEPT !.disturbances = d]
            /\ pc' = [pc EXCEPT ![1] = start_label(cam.is_recording, outcome)]
    /\ UNCHANGED <<now, clf, loop, obs, motion_stop_event, recording_lock>>

CallStop ==
    /\ UNCHANGED classifier_vars
    /\ \E outcome \in StopOutcomes :
         LET r == stop_recording(State(cam, clf, loop, world), now, outcome)
             d == IF outcome = "ok" THEN world.disturbances
                  ELSE world.disturbances + 1
         IN /\ d <= MaxDisturbances
            /\ outcome # "ok" => cam.is_recording
            /\ cam' = r.cam
            /\ world' = [r.world EXCEPT !.disturbances = d]
            /\ pc' = [pc EXCEPT
                         ![1] = stop_label(cam.is_recording, outcome, pc[1])]
    /\ UNCHANGED <<now, clf, loop, obs, motion_stop_event, recording_lock>>

NextApi ==
    \/ CallStart
    \/ CallStop
    \/ Tick

SpecApi == Init /\ [][NextApi]_vars

(* ------------------ the classifier exercised on its own ---------------- *)
\* A scene is either one blob that stays in the preview frame while frames
\* are processed every gap seconds, or one direct call of
\* _combine_classifications with verdicts the three sub-classifiers can give.
ScenarioFrames == 40
Hours == {7, 8, 16, 17, 23}
Weekdays == {0, 4, 5}

\* create_simulated_contours of the classifier's tests: one rectangle of
\* int(frame_width * w) by int(frame_height * h) pixels
simulated_contour(size_type) ==
    CASE size_type = "small" ->
             ((frame_width * 3) \div 100) * ((frame_height * 3) \div 100)
      [] size_type = "medium" ->
             ((frame_width * 10) \div 100) * ((frame_height * 10) \div 100)
      [] size_type = "large" ->
             ((frame_width * 20) \div 100) * ((frame_height * 25) \div 100)

SimulatedAreas == {simulated_contour(k) : k \in {"small", "medium", "large"}}

Areas == {40, 61439, 61440, 92160, 92161, 250000} \cup SimulatedAreas

\* the regions of one frame: one region, or two that fit into the frame
ContourLists ==
    {<<a>> : a \in Areas} \cup
    {<<p[1], p[2]>> : p \in {q \in Areas \X Areas : q[1] + q[2] <= frame_area}}

AllHours == 0..23
AllWeekdays == 0..6
MinAreas == {30, 500}
Gaps == {1, 4}
Durations == {0, 10, 29, 30, 31, 120, 121, 200}

TimeVerdicts == {classify_time(h, w) : h \in Hours, w \in Weekdays}

SizeVerdicts == {classify_size(a) : a \in Areas \cup {None}}

PatternVerdicts ==
    {Verdict("unknown", 0)} \cup
    {classify_motion_pattern(n, span, changes, slow) :
        n \in {4, 5}, span \in {0, 2, 4, 9}, changes \in {0, 3},
        slow \in BOOLEAN}

FrameScenes ==
    [kind : {"frames"}, hour : Hours, weekday : Weekdays, area : Areas,
     min_area : MinAreas, gap : Gaps, zigzag : BOOLEAN, slow : BOOLEAN]

DirectScenes ==
    [kind : {"direct"}, time : TimeVerdicts, size : SizeVerdicts,
     pattern : PatternVerdicts, duration_seconds : Durations]

\* one call of _classify_time, of _classify_size
TimeScenes == [kind : {"time"}, hour : AllHours, weekday : AllWeekdays]

SizeScenes == [kind : {"size"}, contours : ContourLists \cup {<<>>}]

\* one processed frame of the loop: the contour counts when
\* "area > self.motion_min_area", and classify_event is called when there is
\* such a contour
ClassifyFrame ==
    /\ scene.kind = "frames"
    /\ tracker.frames < ScenarioFrames
    /\ IF scene.area > scene.min_area
       THEN LET r == classify_scene(tracker, now, scene)
            IN tracker' = r.tracker /\ result' = r.result
       ELSE /\ tracker' = [tracker EXCEPT !.frames = @ + 1]
            /\ result' = result
    /\ now' = now + scene.gap
    /\ UNCHANGED <<cam, clf, loop, world, obs, motion_stop_event,
                   recording_lock, pc, scene>>

\* the numbers of processed frames after which the event may end
ResetFrames == {3, 12}

\* reset_motion_tracking at the end of an event; the frames go on
ResetTracking ==
    /\ scene.kind = "frames"
    /\ tracker.frames \in ResetFrames
    /\ tracker.motion_start_time # None
    /\ tracker' = reset_tracker(tracker)
    /\ UNCHANGED <<now, cam, clf, loop, world, obs, motion_stop_event,
                   recording_lock, pc, scene, result>>

\* one call of _combine_classifications
CombineCall ==
    /\ scene.kind = "direct"
    /\ result = NoResult
    /\ result' = Result(combine_classifications(
                            scene.time.class, scene.time.conf,
                            scene.size.class, scene.size.conf,
                            scene.pattern.class, scene.pattern.conf,
                            scene.duration_seconds),
                        None, scene.time.class, scene.size.class,
                        scene.pattern.class, scene.duration_seconds)
    /\ UNCHANGED <<now, cam, clf, loop, world, obs, motion_stop_event,
                   recording_lock, pc, scene, tracker>>

\* the result of a sub-classifier alone
Partial(area, time, size) ==
    Result(Outcome("none", None), area, time, size, "none", None)

\* one call of _classify_time
TimeCall ==
    /\ scene.kind = "time"
    /\ result = NoResult
    /\ result' = Partial(None, classify_time(scene.hour, scene.weekday).class,
                         "none")
    /\ UNCHANGED <<now, cam, clf, loop, world, obs, motion_stop_event,
                   recording_lock, pc, scene, tracker>>

\* one call of _classify_size
SizeCall ==
    /\ scene.kind = "size"
    /\ result = NoResult
    /\ LET v == classify_contours(scene.contours)
       IN result' = Partial(v.total_area, "none", v.class)
    /\ UNCHANGED <<now, cam, clf, loop, world, obs, motion_stop_event,
                   recording_lock, pc, scene, tracker>>

InitClassify ==
    /\ now = StartTime
    /\ cam = InitCam
    /\ clf = InitClf
    /\ loop = InitLoop
    /\ world = InitWorld
    /\ obs = InitObs
    /\ motion_stop_event = FALSE
    /\ recording_lock = 0
    /\ pc = [i \in 1..NumStarters |-> "idle"]
    /\ scene \in FrameScenes \cup DirectScenes \cup TimeScenes \cup SizeScenes
    /\ tracker = InitTracker
    /\ result = NoResult

NextClassify ==
    \/ ClassifyFrame
    \/ ResetTracking
    \/ CombineCall
    \/ TimeCall
    \/ SizeCall

SpecClassify == InitClassify /\ [][NextClassify]_vars

(* ------------- capture_snapshot called by two workers ------------------ *)
\* Worker 1 is the detection loop (event snapshots), worker 2 the periodic
\* snapshot worker. Each call captures the image and then executes
\* "self.stats['snapshots_taken'] += 1", which reads the counter and writes
\* the sum back in two steps with no lock held. pc[i] holds the position of
\* worker i, the value it read and the number of calls it has made;
\* world.captured counts the captures that worked.
MaxSnapshots == 3
SnapshotWorkers == {1, 2}

\* camera.capture_file, _add_overlay and unlink: an exception ends the call
CaptureFile(i) ==
    /\ UNCHANGED classifier_vars
    /\ pc[i].at = "idle"
    /\ pc[i].calls < MaxSnapshots
    /\ \E ok \in BOOLEAN :
         IF ok
         THEN /\ pc' = [pc EXCEPT ![i].at = "captured", ![i].calls = @ + 1]
              /\ world' = [world EXCEPT !.captured = @ + 1]
         ELSE /\ pc' = [pc EXCEPT ![i].calls = @ + 1]
              /\ UNCHANGED world
    /\ UNCHANGED <<now, cam, clf, loop, obs, motion_stop_event,
                   recording_lock>>

\* the read of stats['snapshots_taken']
LoadCounter(i) ==
    /\ UNCHANGED classifier_vars
    /\ pc[i].at = "captured"
    /\ pc' = [pc EXCEPT ![i].at = "loaded",
                        ![i].loaded = cam.stats.snapshots_taken]
    /\ UNCHANGED <<now, cam, clf, loop, world, obs, motion_stop_event,
                   recording_lock>>

\* the write of the incremented value; the call returns the file path
StoreCounter(i) ==
    /\ UNCHANGED classifier_vars
    /\ pc[i].at = "loaded"
    /\ cam' = [cam EXCEPT !.stats.snapshots_taken = pc[i].loaded + 1]
    /\ pc' = [pc EXCEPT ![i].at = "idle", ![i].loaded = None]
    /\ UNCHANGED <<now, clf, loop, world, obs, motion_stop_event,
                   recording_lock>>

InitSnapshots ==
    /\ now = StartTime
    /\ cam = InitCam
    /\ clf = InitClf
    /\ loop = InitLoop
    /\ world = [captured |-> 0]
    /\ obs = InitObs
    /\ motion_stop_event = FALSE
    /\ recording_lock = 0
    /\ pc = [i \in SnapshotWorkers |->
                [at |-> "idle", loaded |-> None, calls |-> 0]]
    /\ scene = NoScene
    /\ tracker = InitTracker
    /\ result = NoResult

NextSnapshots ==
    \E i \in SnapshotWorkers :
        \/ CaptureFile(i)
        \/ LoadCounter(i)
        \/ StoreCounter(i)

SpecSnapshots == InitSnapshots /\ [][NextSnapshots]_vars

(* ------------------ sizing of the circular buffer ---------------------- *)
\* __init__ with a configured number of pre-record seconds, stopped before
\* the call of _initialize_circular_buffer at its end
MaxPreRecord == 60

InitializeCircularBuffer ==
    /\ UNCHANGED classifier_vars
    /\ cam.circular_output = None
    /\ cam' = initialize_circular_buffer(cam)
    /\ UNCHANGED <<now, clf, loop, world, obs, motion_stop_event,
                   recording_lock, pc>>

InitBuffer ==
    /\ now = StartTime
    /\ cam \in {[ConstructedCam EXCEPT !.pre_record_seconds = seconds] :
                   seconds \in 0..MaxPreRecord}
    /\ clf = InitClf
    /\ loop = InitLoop
    /\ world = InitWorld
    /\ obs = InitObs
    /\ motion_stop_event = FALSE
    /\ recording_lock = 0
    /\ pc = [i \in 1..NumStarters |-> "idle"]
    /\ scene = NoScene
    /\ tracker = InitTracker
    /\ result = NoResult

NextBuffer == InitializeCircularBuffer

SpecBuffer == InitBuffer /\ [][NextBuffer]_vars

(* ------------- the upload worker beside the detection loop ------------- *)
\* what ftp.upload_file does for one item: it returns True or False, or
\* raises
UploadOutcomes == {"success", "failure", "raises"}

\* _process_upload for an item already taken from the queue
process_upload(media, item, outcome) ==
    IF item.file \notin media.files THEN media
    ELSE IF outcome = "success"
    THEN [media EXCEPT !.uploaded = @ \cup {item.file},
                       !.files = IF item.type \in {"video", "visual"}
                                 THEN @ \ {item.file} ELSE @]
    ELSE IF outcome = "failure" /\ item.attempts + 1 < item.max_attempts
    THEN [media EXCEPT !.upload_queue =
              Append(@, [item EXCEPT !.attempts = @ + 1]),
                       !.queue_size = Len(media.upload_queue) + 1]
    ELSE [media EXCEPT !.upload_failures = @ + 1]

\* one round of _upload_worker with an item in the queue: the item is taken
\* from the head under the lock and processed; limit is the number of things
\* that may go wrong in the run
UploadRound(limit) ==
    /\ UNCHANGED classifier_vars
    /\ world.media.tracked
    /\ world.media.upload_queue # <<>>
    /\ \E outcome \in UploadOutcomes :
         LET item == Head(world.media.upload_queue)
             rest == [world.media EXCEPT
                         !.upload_queue = Tail(@),
                         !.queue_size = Len(world.media.upload_queue) - 1]
             d    == IF outcome = "success" THEN world.disturbances
                     ELSE world.disturbances + 1
         IN /\ d <= limit
            /\ outcome # "success" => item.file \in world.media.files
            /\ world' = [world EXCEPT
                            !.media = process_upload(rest, item, outcome),
                            !.disturbances = d]
    /\ UNCHANGED <<now, cam, clf, loop, obs, motion_stop_event,
                   recording_lock, pc>>

ProcessUpload == UploadRound(MaxDisturbances)

InitHandoff ==
    /\ now = StartTime
    /\ cam = InitCam
    /\ clf = InitClf
    /\ loop = InitLoop
    /\ world = [InitWorld EXCEPT !.media.tracked = TRUE]
    /\ obs = InitObs
    /\ motion_stop_event = FALSE
    /\ recording_lock = 0
    /\ pc = [i \in 1..NumStarters |-> "idle"]
    /\ scene = NoScene
    /\ tracker = InitTracker
    /\ result = NoResult

NextHandoff ==
    \/ SkipPass
    \/ FramePass
    \/ Tick
    \/ ProcessUpload

SpecHandoff == InitHandoff /\ [][NextHandoff]_vars

(* ------------------- ErrorRecoveryManager ------------------------------ *)
\* The manager is kept in world.recovery; pc.monitor is the position of the
\* monitoring thread and pc.caller tells how a call of
\* manager.stop_monitoring() ended. The outcome of a health check and of a
\* recovery attempt is an input of the pass.
MaxChecks == 4
check_interval == 60
recovery_failures == 3
recovery_spacing == 300

\* __init__: "self.stop_monitoring = Event()" is an attribute of the
\* instance; its value here is whether the event is set
InitRecovery ==
    [attributes |-> {"stop_monitoring", "monitor_thread"},
     stop_monitoring |-> FALSE,
     thermal_camera_failures |-> 0,
     smart_camera_failures |-> 0,
     last_thermal_recovery |-> 0,
     last_smart_camera_recovery |-> 0]

\* what the name stop_monitoring refers to on the instance: an attribute of
\* the instance is found before a method of the class of the same name
lookup_stop_monitoring(mgr) ==
    IF "stop_monitoring" \in mgr.attributes THEN "event" ELSE "method"

\* _check_thermal_camera_health and _check_smart_camera_health: the failure
\* counter and the time of the last recovery attempt after one check
check_health(failures, last, healthy, t, recovered) ==
    IF healthy THEN [failures |-> 0, last |-> last]
    ELSE IF failures + 1 >= recovery_failures /\ t - last > recovery_spacing
    THEN [failures |-> IF recovered THEN 0 ELSE failures + 1, last |-> t]
    ELSE [failures |-> failures + 1, last |-> last]

\* start_monitoring
StartRecoveryMonitoring ==
    /\ UNCHANGED classifier_vars
    /\ pc.monitor = "not_started"
    /\ world' = [world EXCEPT !.recovery.stop_monitoring = FALSE]
    /\ pc' = [pc EXCEPT !.monitor = "running"]
    /\ UNCHANGED <<now, cam, clf, loop, obs, motion_stop_event,
                   recording_lock>>

\* one round of _monitoring_loop, the wait of check_interval included
MonitoringPass ==
    /\ UNCHANGED classifier_vars
    /\ pc.monitor = "running"
    /\ IF world.recovery.stop_monitoring
       THEN /\ pc' = [pc EXCEPT !.monitor = "exited"]
            /\ UNCHANGED <<now, world>>
       ELSE /\ now + check_interval
                   <= StartTime + recovery_spacing + MaxChecks * check_interval
            /\ \E thermal, smart, recovered \in BOOLEAN :
                 LET m == world.recovery
                     a == check_health(m.thermal_camera_failures,
                                       m.last_thermal_recovery, thermal, now,
                                       recovered)
                     b == check_health(m.smart_camera_failures,
                                       m.last_smart_camera_recovery, smart,
                                       now, recovered)
                 IN world' = [world EXCEPT
                        !.recovery.thermal_camera_failures = a.failures,
                        !.recovery.last_thermal_recovery = a.last,
                        !.recovery.smart_camera_failures = b.failures,
                        !.recovery.last_smart_camera_recovery = b.last]
            /\ now' = now + check_interval
            /\ UNCHANGED pc
    /\ UNCHANGED <<cam, clf, loop, obs, motion_stop_event, recording_lock>>

\* the call manager.stop_monitoring(): calling the Event raises TypeError;
\* the method sets the event and joins the thread for at most 5 seconds
CallStopMonitoring ==
    /\ UNCHANGED classifier_vars
    /\ pc.caller = "idle"
    /\ IF lookup_stop_monitoring(world.recovery) = "event"
       THEN /\ pc' = [pc EXCEPT !.caller = "raised"]
            /\ UNCHANGED world
       ELSE /\ pc' = [pc EXCEPT !.caller = "returned"]
            /\ world' = [world EXCEPT !.recovery.stop_monitoring = TRUE]
    /\ UNCHANGED <<now, cam, clf, loop, obs, motion_stop_event,
                   recording_lock>>

InitRecoveryManager ==
    /\ now = StartTime + recovery_spacing
    /\ cam = InitCam
    /\ clf = InitClf
    /\ loop = InitLoop
    /\ world = [recovery |-> InitRecovery]
    /\ obs = InitObs
    /\ motion_stop_event = FALSE
    /\ recording_lock = 0
    /\ pc = [monitor |-> "not_started", caller |-> "idle"]
    /\ scene = NoScene
    /\ tracker = InitTracker
    /\ result = NoResult

NextRecovery ==
    \/ StartRecoveryMonitoring
    \/ MonitoringPass
    \/ CallStopMonitoring

SpecRecovery == InitRecoveryManager /\ [][NextRecovery]_vars

(* ------------- the loop under a configured frame rate ------------------ *)
\* pi_camera.framerate as configured: the default, a slower and a faster
\* camera
Framerates == {10, 30, 60}

InitRates ==
    /\ now = StartTime
    /\ cam \in {[InitCam EXCEPT !.framerate = f] : f \in Framerates}
    /\ clf = InitClf
    /\ loop = InitLoop
    /\ world = InitWorld
    /\ obs = InitObs
    /\ motion_stop_event = FALSE
    /\ recording_lock = 0
    /\ pc = [i \in 1..NumStarters |-> "idle"]
    /\ scene = NoScene
    /\ tracker = InitTracker
    /\ result = NoResult

NextRates ==
    \/ SkipPass
    \/ FramePass
    \/ Tick

SpecRates == InitRates /\ [][NextRates]_vars

(* ------------- _stop_recording beside the upload worker ---------------- *)
\* The statements of _stop_recording taken one group at a time, so that the
\* upload worker can run between them: the stop of the drain with the
\* statistics, the call of queue_video, and "Reset state" with the close of
\* the file. pc[1] is the position of the thread that starts and stops.
StopSteps == {"drained", "queued"}

StartSession ==
    /\ pc[1] \notin StopSteps
    /\ CallStart

\* "with self.recording_lock", the test of is_recording,
\* circular_output.stop() and the statistics; a stop that raises goes to the
\* except clause
StopDrain ==
    /\ UNCHANGED classifier_vars
    /\ pc[1] \notin StopSteps
    /\ cam.is_recording
    /\ recording_lock = 0
    /\ \E outcome \in {"ok", "stop_fails"} :
         LET s0 == State(cam, clf, loop, world)
             r  == IF outcome = "ok" THEN stop_account(s0, now)
                   ELSE stop_except(s0)
             d  == IF outcome = "ok" THEN world.disturbances
                   ELSE world.disturbances + 1
         IN /\ d <= MaxDisturbances
            /\ cam' = r.cam
            /\ world' = [r.world EXCEPT !.disturbances = d]
            /\ pc' = [pc EXCEPT ![1] = IF outcome = "ok" THEN "drained"
                                       ELSE "stop_failed"]
            /\ recording_lock' = IF outcome = "ok" THEN 1 ELSE 0
    /\ UNCHANGED <<now, clf, loop, obs, motion_stop_event>>

\* "Upload video if configured"
StopQueueVideo ==
    /\ UNCHANGED classifier_vars
    /\ pc[1] = "drained"
    /\ LET r == stop_queue(State(cam, clf, loop, world))
       IN cam' = r.cam /\ world' = r.world
    /\ pc' = [pc EXCEPT ![1] = "queued"]
    /\ UNCHANGED <<now, clf, loop, obs, motion_stop_event, recording_lock>>

\* "Reset state", "Close file if opened" and the release of the lock
StopResetClose ==
    /\ UNCHANGED classifier_vars
    /\ pc[1] = "queued"
    /\ LET r == stop_reset(State(cam, clf, loop, world))
       IN cam' = r.cam /\ world' = r.world
    /\ pc' = [pc EXCEPT ![1] = "stopped"]
    /\ recording_lock' = 0
    /\ UNCHANGED <<now, clf, loop, obs, motion_stop_event>>

NextStopOrder ==
    \/ StartSession
    \/ StopDrain
    \/ StopQueueVideo
    \/ StopResetClose
    \/ ProcessUpload
    \/ Tick

SpecStopOrder == InitHandoff /\ [][NextStopOrder]_vars

(* ------------------- the upload queue on its own ----------------------- *)
\* Snapshots and videos are written and queued, and the worker processes the
\* queue with uploads that may fail any number of times up to
\* MaxUploadFailures.
MaxUploads == 2
MaxUploadFailures == 6

\* a snapshot is written and handed to queue_visual_image
EnqueueVisual ==
    /\ UNCHANGED classifier_vars
    /\ world.opens < MaxUploads
    /\ LET f  == File("snapshot", world.opens + 1)
           s0 == State(cam, clf, loop, [world EXCEPT !.opens = @ + 1])
       IN world' = queue_visual_image(write_file(s0, f), f).world
    /\ UNCHANGED <<now, cam, clf, loop, obs, motion_stop_event,
                   recording_lock, pc>>

\* a video is written and handed to queue_video
EnqueueVideo ==
    /\ UNCHANGED classifier_vars
    /\ world.opens < MaxUploads
    /\ LET f  == File("video", world.opens + 1)
           s0 == State(cam, clf, loop, [world EXCEPT !.opens = @ + 1])
       IN world' = queue_video(write_file(s0, f), f).world
    /\ UNCHANGED <<now, cam, clf, loop, obs, motion_stop_event,
                   recording_lock, pc>>

UploadAttempt == UploadRound(MaxUploadFailures)

NextUpload ==
    \/ EnqueueVisual
    \/ EnqueueVideo
    \/ UploadAttempt

SpecUpload == InitHandoff /\ [][NextUpload]_vars

(* ---------------------- motion that never ends ------------------------- *)
\* Every processed frame has motion and no start of a recording fails; a stop
\* or a snapshot may fail and the file may outgrow its limit. The loop keeps
\* running (it always takes its next pass) and the clock keeps going, up to
\* CoverageHorizon seconds.
CoverageHorizon == 4

StartFailures == {"open_fails", "drain_fails"}

UnendingMotionPass ==
    /\ LoopRuns
    /\ next_frame_counter(loop) = 0
    /\ LET l0   == [loop EXCEPT !.frame_counter = 0]
           s0   == State(cam, clf, l0, world)
           calm == process_frame(s0, now, FrameInput(TRUE, "none"))
       IN \E dist \in Disturbances \ StartFailures :
            LET r == IF dist = "none" THEN calm
                     ELSE process_frame(s0, now, FrameInput(TRUE, dist))
                d == IF dist = "none" THEN world.disturbances
                     ELSE world.disturbances + 1
            IN /\ d <= MaxDisturbances
               /\ dist # "none" => r # calm
               /\ r.cam.stats.motion_events <= MaxEvents
               /\ cam' = r.cam
               /\ clf' = r.clf
               /\ loop' = r.loop
               /\ world' = [r.world EXCEPT !.disturbances = d]
               /\ obs' = [obs EXCEPT
                              !.run = Min(@ + 1, min_pattern_samples),
                              !.session_end =
                                  IF cam.is_recording /\ ~r.cam.is_recording
                                  THEN now ELSE @,
                              !.capture_failed = FALSE]

\* a second passes
CoverageTick ==
    /\ UNCHANGED classifier_vars
    /\ now < StartTime + CoverageHorizon
    /\ now' = now + 1
    /\ UNCHANGED <<cam, clf, loop, world, obs, motion_stop_event,
                   recording_lock, pc>>

\* the next pass of the while loop
NextPass == SkipPass \/ UnendingMotionPass

\* ENABLED NextPass written out: the loop has not been told to stop and the
\* pass that comes next, a skipped frame or a processed one, stays within
\* the bounds
PassPossible ==
    /\ ~motion_stop_event \/ pc[1] = "in_pass"
    /\ \/ next_frame_counter(loop) # 0
       \/ LET l0 == [loop EXCEPT !.frame_counter = 0]
              s0 == State(cam, clf, l0, world)
          IN \E dist \in Disturbances \ StartFailures :
               LET r == process_frame(s0, now, FrameInput(TRUE, dist))
               IN /\ dist # "none" =>
                         /\ world.disturbances < MaxDisturbances
                         /\ r # process_frame(s0, now, FrameInput(TRUE, "none"))
                  /\ r.cam.stats.motion_events <= MaxEvents

\* WF_vars(NextPass): the thread of the loop is never held up for ever
LoopKeepsRunning == []<>(~PassPossible) \/ []<><<NextPass>>_vars

NextCoverage ==
    \/ SkipPass
    \/ UnendingMotionPass
    \/ CoverageTick

SpecCoverage ==
    /\ Init
    /\ [][NextCoverage]_vars
    /\ LoopKeepsRunning
    /\ WF_vars(CoverageTick)

(* ======================================================================= *)
(* Properties                                                              *)
(* ======================================================================= *)
Returned(i) == pc[i] \in {"ignored", "open_failed", "drain_failed", "started"}
Creators == {i \in Starters : pc[i] = "started"}
Openers == {i \in Starters :
              pc[i] \in {"drain", "commit", "drain_failed", "started"}}
Failed == {i \in Starters : pc[i] \in {"open_failed", "drain_failed"}}

\* C1, as claimed: once all concurrent _start_recording calls issued while no
\* session was active have returned, exactly one of them created the session
\* and no other call opened a file.
C1_ExactlyOneCreates ==
    (\A i \in Starters : Returned(i)) =>
        Cardinality(Creators) = 1 /\ Openers = Creators

\* C1, amended: at most one session is active and at most one call creates
\* it; exactly one call creates it unless every call fails in open() or in
\* circular_output.start(); a file is opened only by a call that found no
\* session active; a call that finds a session active returns without
\* opening a file or changing the session; a call that fails leaves no
\* session active.
C1_AtMostOneSession ==
    /\ [](/\ Cardinality(Creators) <= 1
          /\ cam.is_recording <=> Cardinality(Creators) = 1
          /\ world.opens = Cardinality(Openers)
          /\ (\A i \in Starters : Returned(i)) =>
                 \/ Cardinality(Creators) = 1
                 \/ Failed = Starters)
    /\ [][\A i \in Starters :
            /\ pc[i] = "check" /\ pc'[i] = "ignored" =>
                   cam' = cam /\ world' = world
            /\ pc'[i] # pc[i] /\ pc'[i] \in {"open_failed", "drain_failed"} =>
                   ~cam'.is_recording]_vars

\* all calls have returned, one created the session, the others were ignored
C1_Witness ==
    /\ \A i \in Starters : pc[i] \in {"ignored", "started"}
    /\ Cardinality(Creators) = 1
    /\ cam.is_recording
    /\ world.opens = 1

\* a step of the loop that processes a frame with motion
MotionFrame == obs'.run > 0 /\ FramePass
\* a step in which the loop triggers an event and calls _start_recording
Triggered == cam'.stats.motion_events = cam.stats.motion_events + 1

\* C2: the loop starts a recording only at a frame that is at least the
\* trigger_threshold-th of a run of consecutive processed frames with motion
\* (so two motion frames followed by a still frame start nothing), and every
\* processed frame without motion resets the consecutive-motion counter to 0.
C2_Debounce ==
    [][/\ Triggered => obs'.run >= motion_trigger_threshold
       /\ obs'.run = 0 => loop'.consecutive_frames_with_motion = 0]_vars

\* two motion frames, then a still frame, and nothing was started
C2_Witness ==
    /\ clf.motion_history.n = motion_trigger_threshold - 1
    /\ obs.run = 0
    /\ loop.consecutive_frames_without_motion = 1
    /\ cam.stats.motion_events = 0
    /\ world.opens = 0

\* C3: the loop starts a recording only at a processed frame where no event
\* is in progress, motion was present in at least trigger_threshold
\* consecutive processed frames, and at least motion_cooldown seconds have
\* passed since the previous recording session ended.
C3_CooldownRespected ==
    [][Triggered =>
         /\ ~loop.motion_detected
         /\ obs'.run >= motion_trigger_threshold
         /\ obs.session_end # None =>
                now - obs.session_end >= motion_cooldown]_vars

\* motion comes back in a processed frame while an event is in progress and
\* still frames have been counted
ReEntry ==
    /\ loop.motion_detected
    /\ loop.consecutive_frames_without_motion > 0
    /\ MotionFrame

SameSession ==
    /\ cam'.is_recording = cam.is_recording
    /\ cam'.current_recording_path = cam.current_recording_path
    /\ cam'.recording_start_time = cam.recording_start_time
    /\ cam'.output_file = cam.output_file

NoNewStart ==
    /\ cam'.stats.motion_events = cam.stats.motion_events
    /\ world'.opens = world.opens

\* the step stores a row by the limit path and leaves no session active
ForcedStopStep ==
    /\ Len(world'.events_db) = Len(world.events_db) + 1
    /\ world'.events_db[Len(world'.events_db)].forced
    /\ cam.is_recording
    /\ ~cam'.is_recording
    /\ ~loop'.motion_detected

\* C4, as claimed: when motion reappears during the post-record window the
\* still-frame counter is reset, the event goes on, _start_recording is not
\* invoked again, no file is opened and the session (active flag, path, start
\* time) is unchanged.
C4_SessionContinues ==
    [][ReEntry =>
         /\ loop'.consecutive_frames_without_motion = 0
         /\ loop'.motion_detected
         /\ NoNewStart
         /\ SameSession]_vars

\* C4, amended: when motion reappears during the post-record window the
\* still-frame counter is reset, _start_recording is not invoked again and no
\* file is opened; the event goes on with the session unchanged unless the
\* duration or size limit is reached in that same pass, which force-stops it.
C4_SessionContinuesUnlessLimit ==
    [][ReEntry =>
         /\ loop'.consecutive_frames_without_motion = 0
         /\ NoNewStart
         /\ \/ loop'.motion_detected /\ SameSession
            \/ ForcedStopStep]_vars

\* an event whose motion paused and came back, the same session still active
C4_Witness ==
    /\ obs.resumed
    /\ loop.motion_detected
    /\ cam.is_recording
    /\ loop.consecutive_frames_without_motion = 0
    /\ world.opens = 1
    /\ cam.stats.motion_events = 1

\* C5: after every processed frame (in particular when every frame has
\* motion) no session is active whose elapsed time has reached
\* max_duration_seconds: the pass that finds the limit reached stops it.
C5_ForcedStopWithinOneFrame ==
    [][~(/\ cam'.is_recording
         /\ cam'.recording_start_time # None
         /\ now - cam'.recording_start_time >= max_record_duration
         /\ FramePass)]_vars

LastRow == world.events_db[Len(world.events_db)]

\* motion in every frame, and the session was stopped by the duration limit
C5_Witness ==
    /\ world.events_db # <<>>
    /\ LastRow.forced
    /\ world.disturbances = 0
    /\ obs.run >= motion_trigger_threshold
    /\ clf.motion_start_time = None
    /\ ~cam.is_recording
    /\ cam.last_recording_end_time = now
    /\ cam.stats.total_recording_seconds >= max_record_duration

LoopPass == LowRiskPass \/ SkipPass \/ ErrorPass \/ FramePass

\* C6: a session whose elapsed time has reached max_duration_seconds is
\* stopped by the end of the next loop pass, whatever kind of pass it is.
C6_LimitCheckedEveryPass ==
    [][(/\ cam.is_recording
        /\ cam.recording_start_time # None
        /\ now - cam.recording_start_time >= max_record_duration
        /\ LoopPass)
       => ~cam'.is_recording]_vars

RowsFor(e) ==
    Cardinality({k \in 1..Len(world.events_db) : world.events_db[k].event = e})

\* C7: every event that has ended has exactly one stored classification
\* record, the event in progress has none yet.
C7_OneRecordPerEvent ==
    \A e \in 1..cam.stats.motion_events :
        RowsFor(e) = IF e = cam.stats.motion_events /\ loop.motion_detected
                     THEN 0 ELSE 1

\* an event cut by the limit, after which motion ceased for longer than the
\* post-record window
C7_Witness ==
    /\ world.events_db # <<>>
    /\ LastRow.forced
    /\ LastRow.event = cam.stats.motion_events
    /\ ~loop.motion_detected
    /\ post_record_over([loop |-> loop])

\* C8: an event stopped by the duration or size limit has had an end
\* snapshot attempted.
C8_EndSnapshotOnForcedStop ==
    \A k \in 1..Len(world.events_db) :
        world.events_db[k].forced =>
            \E j \in 1..Len(world.snapshot_calls) :
                world.snapshot_calls[j] =
                    [name |-> "event_end_raw",
                     event |-> world.events_db[k].event]

\* C9: no classification result exists while the session is active, and no
\* classification is stored while the session is still active.
C9_NoClassificationBeforeStop ==
    /\ cam.is_recording =>
           cam.current_event_classification = NoClassification
    /\ \A k \in 1..Len(world.events_db) : ~world.events_db[k].session_active

\* C10: when a recording is triggered, the classifier's sample history holds
\* no more samples than the run of consecutive motion frames that triggered
\* it, so no frame of an earlier episode that did not become the event (an
\* aborted debounce) is among the samples the event is classified over.
C10_TrackingBelongsToEvent ==
    [][Triggered => clf'.motion_history.n <= obs'.run]_vars

\* a pass that triggers an event whose _start_recording call fails: no
\* session is active after it and no recording was saved by it
StartFailed ==
    /\ Triggered
    /\ ~cam'.is_recording
    /\ cam'.stats.recordings_saved = cam.stats.recordings_saved

\* C11: when _start_recording fails at the trigger, the controller is idle
\* again after that pass and keeps no start snapshot for the event, and no
\* classification record is ever stored for an event that has no session.
C11_StartFailureAbortsEvent ==
    [][/\ StartFailed =>
              ~loop'.motion_detected /\ cam'.event_snapshots_raw = <<>>
       /\ Len(world'.events_db) > Len(world.events_db) =>
              world'.events_db[Len(world'.events_db)].session_active]_vars

\* C12: a _stop_recording call that directly follows another one changes
\* nothing: recordings_saved, total_recording_seconds and
\* last_recording_end_time stay as they are, no video is queued and no
\* classification is stored.
C12_SecondStopIsNoOp ==
    [][(CallStop /\ pc[1] \in StopLabels) =>
          cam' = cam /\ world' = world]_vars

\* a session was stopped and saved, and _stop_recording was called again
C12_Witness ==
    /\ pc[1] = "stopped_twice"
    /\ ~cam.is_recording
    /\ cam.stats.recordings_saved = 1
    /\ world.videos_queued = 1
    /\ cam.last_recording_end_time > StartTime

\* C13: a _start_recording call made while a session is active leaves
\* is_recording, the path, the start time and the open output file as they
\* are and opens nothing.
C13_StartWhileActiveIsNoOp ==
    [][(CallStart /\ cam.is_recording) =>
          cam' = cam /\ world' = world]_vars

\* a session started earlier is still the session after a second start call
C13_Witness ==
    /\ pc[1] = "ignored"
    /\ cam.is_recording
    /\ cam.recording_start_time < now
    /\ world.opens = 1

\* C14: a pass whose frame capture raises leaves the debounce counters, the
\* event-in-progress flag, the recording session and everything stored as
\* they are, and the loop goes on to its next pass.
C14_CaptureFailureAbsorbed ==
    [][ErrorPass =>
          /\ loop'.consecutive_frames_with_motion
                 = loop.consecutive_frames_with_motion
          /\ loop'.consecutive_frames_without_motion
                 = loop.consecutive_frames_without_motion
          /\ loop'.motion_detected = loop.motion_detected
          /\ cam' = cam
          /\ clf' = clf
          /\ world' = world
          /\ ~motion_stop_event']_vars

\* the capture failed during an event whose session is recording, after
\* motion had paused
C14_Witness ==
    /\ obs.capture_failed
    /\ ~motion_stop_event
    /\ cam.is_recording
    /\ loop.motion_detected
    /\ loop.consecutive_frames_without_motion > 0

\* C15: once stop_monitoring has set the stop event the loop opens no new
\* recording, and when stop_monitoring has returned no session is active and
\* no output file is open, whether the join returned or timed out.
C15_ShutdownLeavesNoSession ==
    [][/\ motion_stop_event => world'.opens = world.opens
       /\ pc'[2] = "returned" =>
              ~cam'.is_recording /\ cam'.output_file = None]_vars

\* C16: the thread of the detection loop never performs a publish itself:
\* no MQTT publish is made from a loop pass.
C16_LoopNeverPublishes == world.mqtt_published_by_loop = 0

\* the rule list of the specification: rule r applies to a result
RuleApplies(r, x) ==
    LET business == x.time_classification = "business_hours"
        off      == x.time_classification = "off_hours"
        small    == x.size_classification = "small"
        large    == x.size_classification = "large"
    IN CASE r = 1 -> business /\ large /\ x.duration_seconds > 120
         [] r = 2 -> small /\ x.duration_seconds < 30
         [] r = 3 -> small
         [] r = 4 -> off
         [] r = 5 -> business /\ large /\ x.motion_pattern = "sustained"
         [] r = 6 -> business /\ x.motion_pattern = "erratic"
         [] r = 7 -> business
         [] r = 8 -> TRUE

RuleCategory(r) ==
    CASE r \in {1, 5, 7} -> "maintenance_visit"
      [] r \in {2, 3, 6} -> "animal"
      [] r \in {4, 8} -> "security_breach"

FirstRule(x) ==
    CHOOSE r \in 1..8 :
        RuleApplies(r, x) /\ \A q \in 1..(r - 1) : ~RuleApplies(q, x)

C18_OffHoursLargeIsBreach ==
    (/\ result # NoResult
     /\ result.time_classification = "off_hours"
     /\ result.size_classification = "large") =>
        /\ result.event_type = "security_breach"
        /\ 0 <= result.confidence_score
        /\ result.confidence_score <= 9000

\* an off-hours large object whose blend reaches the cap
C18_Witness ==
    /\ result.time_classification = "off_hours"
    /\ result.size_classification = "large"
    /\ result.motion_pattern = "erratic"
    /\ result.duration_seconds > 120
    /\ result.event_type = "security_breach"
    /\ result.confidence_score = 9000

BlobScenario ==
    /\ scene.kind = "frames"
    /\ scene.area = 40
    /\ scene.min_area < 40
    /\ classify_time(scene.hour, scene.weekday).class = "off_hours"
    /\ tracker.frames = ScenarioFrames

Phase(name) ==
    CASE name = "event_start_raw" -> 1
      [] name = "event_peak_raw" -> 2
      [] name = "event_end_raw" -> 3

PhaseOfTag(tag) ==
    CASE tag = "start" -> 1 [] tag = "peak" -> 2 [] tag = "end" -> 3

\* C21: the captures attempted for one event come in the order start, peak,
\* end, the first of them being the start capture, and the snapshots kept
\* for the event hold each phase at most once, in that order.
C21_SnapshotOrder ==
    LET calls == world.snapshot_calls
        raw   == cam.event_snapshots_raw
    IN /\ \A i, j \in DOMAIN calls :
              (i < j /\ calls[i].event = calls[j].event) =>
                  Phase(calls[i].name) <= Phase(calls[j].name)
       /\ \A j \in DOMAIN calls :
              (\A i \in 1..(j - 1) : calls[i].event # calls[j].event) =>
                  calls[j].name = "event_start_raw"
       /\ \A i, j \in DOMAIN raw :
              i < j => PhaseOfTag(raw[i]) < PhaseOfTag(raw[j])

\* an event with all three snapshots
C21_Witness ==
    /\ cam.event_snapshots_raw = <<"start", "peak", "end">>
    /\ ~loop.motion_detected
    /\ cam.stats.recordings_saved = 1

PeakCalls(calls, e) ==
    {i \in DOMAIN calls :
        calls[i].name = "event_peak_raw" /\ calls[i].event = e}

\* C22: at most one peak capture is attempted for an event, whether it
\* worked or not, and a pass attempts it only when the recording started more
\* than 30 seconds ago.
C22_PeakAttemptedOnce ==
    [][/\ \A e \in 1..MaxEvents :
              Cardinality(PeakCalls(world'.snapshot_calls, e)) <= 1
       /\ (\E e \in 1..MaxEvents :
              PeakCalls(world'.snapshot_calls, e)
                  # PeakCalls(world.snapshot_calls, e)) =>
              /\ cam.recording_start_time # None
              /\ now - cam.recording_start_time > peak_snapshot_delay]_vars

\* C24: _classify_time gives business_hours exactly for Monday to Friday
\* with 8 <= hour < 17, and off_hours for every other day and hour.
C24_BusinessHours ==
    (scene.kind = "time" /\ result # NoResult) =>
        /\ result.time_classification \in {"business_hours", "off_hours"}
        /\ result.time_classification = "business_hours" <=>
              /\ scene.weekday \in {0, 1, 2, 3, 4}
              /\ 8 <= scene.hour
              /\ scene.hour < 17

\* Friday 17:00 is off hours
C24_Witness ==
    /\ scene.kind = "time"
    /\ scene.weekday = 4
    /\ scene.hour = 17
    /\ result.time_classification = "off_hours"

\* the largest region of a frame
Largest(contours) ==
    CHOOSE a \in {contours[i] : i \in DOMAIN contours} :
        \A i \in DOMAIN contours : contours[i] <= a

C26_TestSuiteAssertions ==
    /\ (scene.kind = "size" /\ result # NoResult) =>
          /\ scene.contours = <<19 * 14>> =>
                 result.size_classification = "small"
          /\ scene.contours = <<64 * 48>> =>
                 result.size_classification = "medium"
          /\ scene.contours = <<128 * 120>> =>
                 result.size_classification = "large"
    /\ (/\ scene.kind = "frames"
        /\ scene.area = 128 * 120
        /\ scene.min_area < scene.area
        /\ scene.weekday = 0
        /\ scene.hour = 23
        /\ tracker.frames = 1) =>
          result.event_type = "security_breach"

\* C27: the counter of snapshots is never written by two workers at once
\* without a lock, so that whenever no call of capture_snapshot is in
\* progress stats['snapshots_taken'] equals the number of successful
\* captures.
C27_NoLostUpdate ==
    (\A i \in SnapshotWorkers : pc[i].at = "idle") =>
        cam.stats.snapshots_taken = world.captured

\* C29: the capacity of the circular buffer is the bytes of
\* pre_record_seconds of video at 2,000,000 bit/s plus a fifth, that is
\* 300,000 bytes per second and 3,000,000 bytes for 10 s; buffer_size_mb is
\* that capacity in units of 2^20 bytes to the nearest hundredth (2.86 for
\* 10 s).
C29_BufferCapacity ==
    cam.circular_output # None =>
        LET bytes == cam.circular_output
            mb    == cam.stats.buffer_size_mb
        IN /\ bytes = 300000 * cam.pre_record_seconds
           /\ 2 * (mb * 1048576 - bytes * 100) <= 1048576
           /\ 2 * (bytes * 100 - mb * 1048576) <= 1048576
           /\ cam.pre_record_seconds = 10 => (bytes = 3000000 /\ mb = 286)

\* 10 s of pre-recording, the buffer initialised
C29_Witness ==
    /\ cam.pre_record_seconds = 10
    /\ cam.circular_output = 3000000
    /\ cam.stats.buffer_size_mb = 286

\* C30: _start_recording called in the idle state with a working output
\* sink leaves is_recording true, and _stop_recording leaves is_recording
\* false when it returns, whether it stopped the session or an error was
\* raised inside it.
C30_RecordingStateTransitions ==
    [][/\ (CallStart /\ ~cam.is_recording /\ pc'[1] = "started") =>
              cam'.is_recording
       /\ CallStop => ~cam'.is_recording]_vars

\* a session was started and the stop of it raised
C30_Witness ==
    /\ pc[1] = "stop_failed"
    /\ ~cam.is_recording
    /\ world.opens = 1
    /\ cam.recording_start_time # None

\* C28: a file that was queued for upload leaves local storage only when an
\* upload of it has succeeded, and a pass of the loop that ends an event
\* leaves the session inactive and the classification, the snapshots and the
\* motion tracking of the event reset, whatever failed on the way.
C28_ArtifactKeptUntilUploaded ==
    [][/\ \A f \in world.media.files \ world'.media.files :
              f \in world'.media.uploaded
       /\ (FramePass /\ loop.motion_detected /\ ~loop'.motion_detected) =>
              /\ ~cam'.is_recording
              /\ cam'.current_event_classification = NoClassification
              /\ cam'.event_snapshots = <<>>
              /\ clf' = InitClf]_vars

\* C31: a call of stop_monitoring() on the ErrorRecoveryManager returns
\* without raising and leaves the stop event set, which is what ends the
\* health-monitoring loop.
C31_StopMonitoringCompletes ==
    pc.caller # "idle" =>
        /\ pc.caller = "returned"
        /\ world.recovery.stop_monitoring

\* the number of no-motion frames that post_record_seconds amounts to at the
\* configured frame rate
ConfiguredPostRecordFrames == (post_record_tenths * cam.framerate) \div 10

\* a pass in which the event ended in the normal way: the end snapshot was
\* attempted
NormalEnd ==
    /\ FramePass
    /\ loop.motion_detected
    /\ ~loop'.motion_detected
    /\ Len(world'.snapshot_calls) > Len(world.snapshot_calls)
    /\ world'.snapshot_calls[Len(world'.snapshot_calls)].name = "event_end_raw"

\* C32: an event in progress ends in the normal way at the first processed
\* frame at which the count of consecutive no-motion frames exceeds
\* post_record_seconds times the configured frame rate: not before the count
\* exceeds it, and an event is not still in progress after a frame at which
\* it does.
C32_EndsAfterPostRecordPeriod ==
    [][/\ NormalEnd =>
              loop'.consecutive_frames_without_motion
                  > ConfiguredPostRecordFrames
       /\ (FramePass /\ loop'.motion_detected) =>
              loop'.consecutive_frames_without_motion
                  <= ConfiguredPostRecordFrames]_vars

\* the upload worker takes up a video that is on local storage
UploadsVideo ==
    /\ ProcessUpload
    /\ Head(world.media.upload_queue).type = "video"
    /\ Head(world.media.upload_queue).file \in world.media.files

\* C33: the output file is closed before its path is handed to the upload
\* queue, so the upload worker never takes up a video whose file is still
\* open for writing; and once a stop has returned, a session that is not
\* active has no path and no start time.
C33_ClosedBeforeQueued ==
    /\ [][UploadsVideo =>
             cam.output_file # Head(world.media.upload_queue).file.key]_vars
    /\ []((pc[1] \in {"stopped", "stop_failed"} /\ ~cam.is_recording) =>
             /\ cam.current_recording_path = None
             /\ cam.recording_start_time = None)

\* C34: after a classify_event call the retained samples are in arrival
\* order and each is less than 10 seconds older than the newest; the pattern
\* class is initializing, with confidence 0.3, whenever fewer than 5 samples
\* are retained; after reset_motion_tracking the history is empty and the
\* motion start time unset.
C34_HistoryIsTimeWindow ==
    scene.kind = "frames" =>
        LET h == tracker.motion_history
            n == Len(h)
        IN /\ \A i \in 1..n : h[i] > h[n] - 10
           /\ \A i \in 1..(n - 1) : h[i] < h[i + 1]
           /\ (n > 0 /\ n < 5) =>
                  /\ result.motion_pattern = "initializing"
                  /\ classify_motion_pattern(
                         n, h[n] - h[1],
                         IF scene.zigzag /\ n > 2 THEN n - 2 ELSE 0,
                         scene.slow) = Verdict("initializing", 3000)
           /\ tracker.motion_start_time = None => h = <<>>

\* frames four seconds apart: after a reset and many more frames only three
\* samples are retained
C34_Witness ==
    /\ scene.kind = "frames"
    /\ scene.gap = 4
    /\ tracker.frames > 12
    /\ Len(tracker.motion_history) = 3
    /\ tracker.motion_start_time > StartTime
    /\ result.motion_pattern = "initializing"

\* the worker takes up an item whose file is on local storage, and the
\* upload of it does not succeed
UploadNotSucceeded ==
    /\ UploadAttempt
    /\ Head(world.media.upload_queue).file \in world.media.files
    /\ Head(world.media.upload_queue).file \notin world'.media.uploaded

\* C35: an item is attempted at most max_attempts times; an upload that does
\* not succeed, whether it returned failure or raised, puts the item back at
\* the tail with one more attempt counted while the count is below
\* max_attempts, and otherwise drops it and adds one to upload_failures;
\* queue_size is the length of the queue after every enqueue and dequeue.
C35_RetryBound ==
    [][/\ UploadAttempt =>
              Head(world.media.upload_queue).attempts
                  < Head(world.media.upload_queue).max_attempts
       /\ world'.media.queue_size = Len(world'.media.upload_queue)
       /\ UploadNotSucceeded =>
              LET item == Head(world.media.upload_queue)
                  rest == Tail(world.media.upload_queue)
              IN IF item.attempts + 1 < item.max_attempts
                 THEN /\ world'.media.upload_queue =
                             Append(rest, [item EXCEPT !.attempts = @ + 1])
                      /\ world'.media.upload_failures
                             = world.media.upload_failures
                 ELSE /\ world'.media.upload_queue = rest
                      /\ world'.media.upload_failures
                             = world.media.upload_failures + 1]_vars

\* C36: no result comes from the final fallback (rule 8): the time class is
\* always business_hours or off_hours, so one of the rules 1 to 7 applies
\* first; security_breach comes from the off-hours rule alone and
\* maintenance_visit only with business_hours.
C36_FinalFallbackUnreachable ==
    result.event_type # "none" =>
        /\ result.time_classification \in {"business_hours", "off_hours"}
        /\ FirstRule(result) # 8
        /\ result.event_type = "security_breach" =>
               /\ FirstRule(result) = 4
               /\ result.time_classification = "off_hours"
        /\ result.event_type = "maintenance_visit" =>
               result.time_classification = "business_hours"

\* a blob of a fifth of the frame on a Saturday: neither large nor small, a
\* breach by the off-hours rule
C36_Witness ==
    /\ scene.kind = "frames"
    /\ scene.weekday = 5
    /\ result.size_classification = "medium"
    /\ result.time_classification = "off_hours"
    /\ result.event_type = "security_breach"
    /\ FirstRule(result) = 4

\* C37: every processed event snapshot carries the tag of the phase it was
\* captured in, also when an earlier phase of the event has no snapshot.
C37_TaggedByPhase ==
    \A image \in world.media.event_images : image.tagged = image.captured

\* C38: every raw snapshot staged during an event (start, peak) is still on
\* local storage when the end of the event processes it, however the passes
\* of the loop and the rounds of the upload worker interleave: each of them
\* becomes an image of the event.
C38_RawSnapshotsKept ==
    [][(NormalEnd /\ cam.current_event_classification # NoClassification) =>
          \A i \in DOMAIN cam.event_snapshots_raw :
              \E image \in world'.media.event_images :
                  /\ image.event = cam.stats.motion_events
                  /\ image.captured = cam.event_snapshots_raw[i]]_vars

\* the event e was ended by the limit, early enough for the cooldown to pass
\* within the time that is followed
ForcedStopped(e) ==
    /\ cam.stats.motion_events = e
    /\ ~loop.motion_detected
    /\ ~cam.is_recording
    /\ obs.session_end # None
    /\ obs.session_end + motion_cooldown <= StartTime + CoverageHorizon

\* C39: with motion in every processed frame, a running loop and starts that
\* succeed, a session that was stopped by the limit is followed by a new
\* session without a pause of the motion, and the new session starts no
\* earlier than motion_cooldown seconds after the forced stop.
C39_RestartAfterForcedStop ==
    /\ \A e \in 1..(MaxEvents - 1) :
           ForcedStopped(e) ~> (cam.stats.motion_events > e)
    /\ [][(Triggered /\ obs.session_end # None) =>
              now - obs.session_end >= motion_cooldown]_vars

\* C40: whenever no session is active, no output file is open and the path
\* and the start time of the session are unset, by whatever path
\* _stop_recording returned; and _start_recording never replaces a file
\* handle that is still open.
C40_NoSessionNoOpenFile ==
    /\ [](~cam.is_recording =>
              /\ cam.output_file = None
              /\ cam.current_recording_path = None
              /\ cam.recording_start_time = None)
    /\ [][(cam'.output_file # None /\ cam'.output_file # cam.output_file) =>
              cam.output_file = None]_vars

====
